---- MODULE Spec2Model ----
(***************************************************************************)
(* A model of the dragonfly-wasm plugin host: the event Dispatcher         *)
(* (pkg/events/dispatcher.go), the plugin Manager                          *)
(* (internal/manager/hostfuncs.go) and the runtime Instance                *)
(* (internal/runtime).  Every part has its own specification over its own  *)
(* variables; the variables of the other parts stay unchanged.             *)
(***************************************************************************)
EXTENDS Integers, Sequences, FiniteSets, TLC

(***************************************************************************)
(* Bounds of the model and constants of the program                        *)
(***************************************************************************)

\* Subscribe calls in one behaviour of the dispatcher specification
MaxSubscribe == 2
\* Dispatch calls that reach a handler (caps eventCount)
MaxDispatch == 1

\* plugin.Priority bands
PriorityLow == -100
PriorityNormal == 0
PriorityHigh == 100
PriorityMonitor == 300

\* slices.SortFunc sorts ranges of at most maxInsertion elements by insertion
maxInsertion == 12

\* LoadedPlugin objects created in one behaviour of the manager specification
MaxLoaded == 3

\* calls started in one behaviour of the concurrent specifications
MaxCalls == 3

Plugins == {"p.a"}
Ids == {"a.one", "a.two"}
Threads == {"t1", "t2"}
Events == {"player_chat", "block_break", "player_sprint"}
Priorities == {PriorityNormal, PriorityHigh, PriorityMonitor}
Keys == {"message"}
Values == {"hello", "world"}

VARIABLES
  subscriptions,  \* Dispatcher.subscriptions: event -> sequence of Subscription
  eventCount,     \* Dispatcher.eventCount
  cancelCount,    \* Dispatcher.cancelCount
  nextH,          \* number of Subscribe calls so far (names the handlers)
  disp,           \* the Dispatch call in flight: its locals and what it did
  disk,           \* the manifests LoadAll discovers in the plugin directory
  plugins,        \* Manager.plugins: id -> the LoadedPlugin (0: no entry)
  loadOrder,      \* Manager.loadOrder
  loaded,         \* every LoadedPlugin created so far: its Info.State, its instance
  mret,           \* the last Manager call that returned, and its result
  mu,             \* Manager.mu: the thread that holds it ("free": none)
  thr,            \* every thread: the call it is in and where it stands in it
  guest,          \* the guest calls that are executing, each on its engine instance
  chan,           \* the calls whose goroutine has put its result in resultCh
  started,        \* number of calls started so far
  inst,           \* a runtime.Instance: its mutex and counters
  pinst,          \* a runtime.PluginInstance: its mutex, State and Metrics.Errors
  pool,           \* a runtime.Pool: size, closed, the instances channel
  pcall,          \* every thread: the Pool call it is in and where it stands in it
  held,           \* the instances that callers hold outside every Pool call
  closes,         \* every instance: the number of Instance.Close calls on it
  storage,        \* a Storage: its backend, whether its process runs, its data map
  files,          \* the base directory of a FileStorage: every plugin's data.json
  sret,           \* the last Storage call that returned, and its result
  limits          \* a Config, the limits given to GetEffectiveLimits and its result

dvars == <<subscriptions, eventCount, cancelCount, nextH, disp>>

mvars == <<disk, plugins, loadOrder, loaded, mret>>

cvars == <<mu, thr, guest, chan, started, inst, pinst>>

pvars == <<pool, pcall, held, closes>>

\* the parts that the specifications above them leave alone
svars == <<storage, files, sret>>

gvars == <<limits>>

ovars == <<pvars, svars, gvars>>

vars == <<dvars, mvars, cvars, ovars>>

(***************************************************************************)
(* Helpers on sequences (Go slices are 0-based, sequences 1-based)         *)
(***************************************************************************)

At(data, i) == data[i + 1]

Swap(data, i, j) ==
  [k \in 1..Len(data) |->
     IF k = i + 1 THEN data[j + 1] ELSE IF k = j + 1 THEN data[i + 1] ELSE data[k]]

\* slices.DeleteFunc(subs, s.PluginID == pluginID): the others, in order
DeleteFuncUpTo(subs, pluginID) ==
  IF \E i \in 1..Len(subs) : subs[i].PluginID = pluginID
    THEN SubSeq(subs, 1, (CHOOSE i \in 1..Len(subs) :
                            /\ subs[i].PluginID = pluginID
                            /\ \A j \in 1..(i - 1) : subs[j].PluginID # pluginID) - 1)
    ELSE subs

DeleteFunc(subs, pluginID) == SelectSeq(subs, LAMBDA s : s.PluginID # pluginID)

Range(s) == {s[i] : i \in 1..Len(s)}

(***************************************************************************)
(* slices.SortFunc as Subscribe uses it (Go's pattern-defeating quicksort). *)
(* The comparison is int(a.Priority - b.Priority); the priorities of the    *)
(* model stay far inside the integer range, so the difference never wraps. *)
(***************************************************************************)

cmpPriority(x, y) == x.Priority - y.Priority

Less(x, y) == cmpPriority(x, y) < 0

\* insertionSortCmpFunc: the inner loop moves data[j] left while it is smaller
RECURSIVE insertionInner(_, _, _)
insertionInner(data, a, j) ==
  IF j > a /\ Less(At(data, j), At(data, j - 1))
  THEN insertionInner(Swap(data, j, j - 1), a, j - 1)
  ELSE data

RECURSIVE insertionOuter(_, _, _, _)
insertionOuter(data, a, b, i) ==
  IF i < b THEN insertionOuter(insertionInner(data, a, i), a, b, i + 1) ELSE data

insertionSortCmpFunc(data, a, b) == insertionOuter(data, a, b, a + 1)

\* order2CmpFunc: the indices x, y of a, b with data[x] <= data[y], and the swaps
order2CmpFunc(data, a, b, swaps) ==
  IF Less(At(data, b), At(data, a))
  THEN [x |-> b, y |-> a, swaps |-> swaps + 1]
  ELSE [x |-> a, y |-> b, swaps |-> swaps]

\* medianCmpFunc: the index of the median of data[a], data[b], data[c]
medianCmpFunc(data, a, b, c, swaps) ==
  LET o1 == order2CmpFunc(data, a, b, swaps)
      o2 == order2CmpFunc(data, o1.y, c, o1.swaps)
      o3 == order2CmpFunc(data, o1.x, o2.x, o2.swaps)
  IN  [pivot |-> o3.y, swaps |-> o3.swaps]

\* choosePivotCmpFunc for ranges of 8 to 49 elements: the median of three
\* (shorter ranges take the static pivot; the hint is "increasing" when the
\* three probes needed no swap, and 3 swaps never reach maxSwaps = 12)
choosePivotCmpFunc(data, a, b) ==
  LET l == b - a
      i == a + (l \div 4) * 1
      j == a + (l \div 4) * 2
      k == a + (l \div 4) * 3
      m == IF l >= 8 THEN medianCmpFunc(data, i, j, k, 0)
                     ELSE [pivot |-> j, swaps |-> 0]
  IN  [pivot |-> m.pivot,
       hint |-> IF m.swaps = 0 THEN "increasing" ELSE "unknown"]

\* partialInsertionSortCmpFunc on a range shorter than shortestShifting = 50:
\* TRUE exactly when the range has no adjacent pair out of order (nothing moves)
partialInsertionSortCmpFunc(data, a, b) ==
  \A i \in (a + 1)..(b - 1) : ~Less(At(data, i), At(data, i - 1))

\* partitionCmpFunc: the two scans of the partition loop
RECURSIVE scanUp(_, _, _, _)
scanUp(data, a, i, j) ==
  IF i <= j /\ Less(At(data, i), At(data, a)) THEN scanUp(data, a, i + 1, j) ELSE i

RECURSIVE scanDown(_, _, _, _)
scanDown(data, a, i, j) ==
  IF i <= j /\ ~Less(At(data, j), At(data, a)) THEN scanDown(data, a, i, j - 1) ELSE j

RECURSIVE partitionLoop(_, _, _, _)
partitionLoop(data, a, i0, j0) ==
  LET i == scanUp(data, a, i0, j0)
      j == scanDown(data, a, i, j0)
  IN  IF i > j THEN [data |-> Swap(data, j, a), mid |-> j]
      ELSE partitionLoop(Swap(data, i, j), a, i + 1, j - 1)

partitionCmpFunc(data, a, b, pivot) ==
  partitionLoop(Swap(data, a, pivot), a, a + 1, b - 1)

\* pdqsortCmpFunc on data[a:b].  A range of at most maxInsertion elements is
\* insertion-sorted.  A longer one that is not already in order is partitioned
\* around the pivot and both sides are sorted in turn; up to
\* maxInsertion + 1 elements both sides are insertion-sorted, so the
\* pattern-breaking and heap-sort fallbacks of longer ranges are never entered.
RECURSIVE pdqsortCmpFunc(_, _, _)
pdqsortCmpFunc(data, a, b) ==
  IF b - a <= maxInsertion THEN insertionSortCmpFunc(data, a, b)
  ELSE LET c == choosePivotCmpFunc(data, a, b)
       IN  IF c.hint = "increasing" /\ partialInsertionSortCmpFunc(data, a, b)
           THEN data
           ELSE LET p == partitionCmpFunc(data, a, b, c.pivot)
                IN  pdqsortCmpFunc(pdqsortCmpFunc(p.data, a, p.mid), p.mid + 1, b)

SortFunc(data) == pdqsortCmpFunc(data, 0, Len(data))

(***************************************************************************)
(* The Dispatcher                                                          *)
(***************************************************************************)

\* A map[string]string is a function on the keys it holds
Maps == UNION {[D -> Values] : D \in SUBSET Keys}

EmptyMap == [k \in {} |-> "hello"]

\* What a Handler can do when called: return an EventResult, return a nil
\* result, or return an error (beside a result that claims a cancellation
\* and a modification, which Dispatch must not look at)
Outcome(kind) == [kind |-> kind, Cancelled |-> FALSE, Modifications |-> EmptyMap]

Outcomes ==
  {Outcome("nil")}
    \cup [kind : {"err"}, Cancelled : {TRUE}, Modifications : {[k \in Keys |-> "hello"]}]
    \cup [kind : {"ok"}, Cancelled : BOOLEAN, Modifications : Maps]

\* A Subscription; Handler names the closure, ev remembers the event it was
\* subscribed to (the struct itself does not hold it)
Subscription(pluginID, priority, ignoreCancelled, h, event) ==
  [PluginID |-> pluginID, Priority |-> priority, IgnoreCancelled |-> ignoreCancelled,
   Handler |-> h, ev |-> event]

NoResult == [Cancelled |-> FALSE, Modifications |-> EmptyMap, Handlers |-> 0, Errors |-> <<>>]

Idle == [pc |-> "idle", event |-> "", subs |-> <<>>, idx |-> 0, result |-> NoResult,
         err |-> "nil", log |-> <<>>]

DInit ==
  /\ subscriptions = [e \in Events |-> <<>>]
  /\ eventCount = [e \in Events |-> 0]
  /\ cancelCount = [e \in Events |-> 0]
  /\ nextH = 0
  /\ disp = Idle

\* Manager.New
NoPlugin == 0

\* What a Manager call returned: calls lists the plugins whose state the call
\* changed, in order, open counts the engine instances it left open and
\* unowned, and sound holds the discovered plugins whose module was found
\* loadable by the call
Ret(op, id, err) ==
  [op |-> op, id |-> id, err |-> err, calls |-> <<>>, open |-> 0, sound |-> {}]

MInit ==
  /\ plugins = [id \in Ids |-> NoPlugin]
  /\ loadOrder = <<>>
  /\ loaded = <<>>
  /\ mret = Ret("New", "", "nil")

\* No thread is in a call; the runtime's Instance and PluginInstance as
\* NewInstance and Runtime.LoadPlugin leave them
\* (st: the state the call found its plugin in once it held the lock)
NoCall == [pc |-> "idle", op |-> "", id |-> "", n |-> 0, m |-> 0, k |-> 0,
           parent |-> "", ret |-> "", before |-> 0, after |-> 0, st |-> ""]

CInit ==
  /\ mu = "free"
  /\ thr = [t \in Threads |-> NoCall]
  /\ guest = {}
  /\ chan = {}
  /\ started = 0
  /\ inst = [mu |-> "free", State |-> "Loaded", callCount |-> 0, errorCount |-> 0,
             errors |-> 0]
  /\ pinst = [mu |-> "free", State |-> "Loaded", Errors |-> 0]

\* The largest pool of the model
MaxPoolSize == 2

\* A nil *Instance, the instances a pool of the largest size creates, and one
\* more that a caller created by itself
NilInstance == 0
Foreign == MaxPoolSize + 1
Instances == 1..Foreign

\* No thread is in a Pool call.  (ctx: the caller's context, "live" or "done";
\* alone: no other thread was in a Pool call while this one ran; after: a
\* Close had returned when the call began; before: Available() when it began;
\* fn: how the callback of WithInstance ended, "" if it did not run)
NoPoolCall == [pc |-> "idle", op |-> "", inst |-> NilInstance, ret |-> "",
               ctx |-> "live", alone |-> TRUE, after |-> FALSE, before |-> 0,
               fn |-> ""]

\* NewPool, lines 33-58 of part_000, every createInstance succeeding: the
\* channel holds size new instances.  (returned: a Close has returned; idle:
\* the instances in the channel when Close set closed; lone: that Close ran
\* with no other call in flight; panicked: a goroutine panicked in a Pool call)
NewPool(size) ==
  [size |-> size, created |-> size, closed |-> FALSE, chclosed |-> FALSE,
   instances |-> [i \in 1..size |-> i], panicked |-> FALSE, returned |-> FALSE,
   idle |-> {}, lone |-> FALSE]

PInit ==
  /\ pool = NewPool(1)
  /\ pcall = [t \in Threads |-> NoPoolCall]
  /\ held = {Foreign}
  /\ closes = [i \in Instances |-> 0]

\* The keys of the model: a plain one, one that holds a byte that is not
\* valid UTF-8, and the plain one followed by U+FFFD
KeyInvalid == "k<ff>"
KeyReplacement == "k<fffd>"
StorageKeys == {"k", KeyInvalid, KeyReplacement}
StorageValues == {"v1", "v2"}
PluginIDs == {"p.one", "p.two"}

\* No entry in a map[string][]byte
NoValue == "<none>"
NoEntries == [k \in StorageKeys |-> NoValue]

\* No entry for a plugin in data (has: data[p] is a map)
NoData == [p \in PluginIDs |-> [has |-> FALSE, kv |-> NoEntries]]

\* No data.json and no directory for a plugin.  (state: "none", "whole" or
\* "torn"; doc: the JSON object, its members in the order they were written)
NoFile == [state |-> "none", doc |-> <<>>]

\* NewMemoryStorage, and an empty base directory
SInit ==
  /\ storage = [backend |-> "memory", up |-> TRUE, data |-> NoData]
  /\ files = [p \in PluginIDs |-> NoFile]
  /\ sret = [op |-> "New", p |-> "", k |-> "", v |-> NoValue, present |-> FALSE,
             err |-> "nil"]

\* The largest limit of the model
MaxLimit == 2

\* plugin.ResourceLimits
ResourceLimits(mem, ms, fuel) ==
  [MaxMemoryMB |-> mem, MaxExecutionMs |-> ms, MaxFuel |-> fuel]

\* A Config whose limits are all zero, and no call of GetEffectiveLimits yet
GInit ==
  limits = [DefaultLimits |-> ResourceLimits(0, 0, 0),
            GlobalLimits |-> ResourceLimits(0, 0, 0),
            given |-> ResourceLimits(0, 0, 0),
            effective |-> ResourceLimits(0, 0, 0),
            called |-> FALSE]

OInit == PInit /\ SInit /\ GInit

\* New over an empty plugin directory, and no thread in a call
Init == DInit /\ MInit /\ CInit /\ OInit /\ disk = <<>>

\* Subscribe: append, then sort the event's list by priority
Subscribed(subs, sub) == SortFunc(Append(subs, sub))

Subscribe(event, pluginID, priority, ignoreCancelled) ==
  /\ nextH' = nextH + 1
  /\ subscriptions' =
       [subscriptions EXCEPT
          ![event] = Subscribed(@, Subscription(pluginID, priority, ignoreCancelled,
                                                nextH + 1, event))]
  /\ UNCHANGED <<eventCount, cancelCount, disp, mvars, cvars, ovars>>

\* Unsubscribe: drop the plugin's subscriptions from every event
Unsubscribed(subsOf, pluginID) ==
  [e \in DOMAIN subsOf |-> DeleteFunc(subsOf[e], pluginID)]

Unsubscribe(pluginID) ==
  /\ \E e \in Events : \E s \in Range(subscriptions[e]) : s.PluginID = pluginID
  /\ subscriptions' = Unsubscribed(subscriptions, pluginID)
  /\ UNCHANGED <<eventCount, cancelCount, nextH, disp, mvars, cvars, ovars>>

\* UnsubscribeEvent: drop the plugin's subscriptions from one event
UnsubscribedEvent(subsOf, pluginID, event) ==
  [subsOf EXCEPT ![event] = DeleteFunc(@, pluginID)]

UnsubscribeEvent(pluginID, event) ==
  /\ \E s \in Range(subscriptions[event]) : s.PluginID = pluginID
  /\ subscriptions' = UnsubscribedEvent(subscriptions, pluginID, event)
  /\ UNCHANGED <<eventCount, cancelCount, nextH, disp, mvars, cvars, ovars>>

\* The Dispatch calls counted so far
RECURSIVE Sum(_, _)
Sum(f, S) == IF S = {} THEN 0 ELSE LET x == CHOOSE x \in S : TRUE IN f[x] + Sum(f, S \ {x})

Dispatches == Sum(eventCount, Events)

\* Dispatch, lines 91-101: clone the event's list under the read lock; an
\* empty list returns an empty result at once
SnapshotStale(subsOf, event) ==
  IF Len(subsOf[event]) = 0 THEN <<>> ELSE SubSeq(subsOf[event], 1, Len(subsOf[event]) - 1)

Snapshot(subsOf, event) == subsOf[event]

DispatchSnapshot(event) ==
  /\ disp.pc = "idle"
  /\ Dispatches < MaxDispatch
  /\ LET subs == Snapshot(subscriptions, event)
     IN  disp' = [Idle EXCEPT !.pc = IF Len(subs) = 0 THEN "done" ELSE "walk",
                              !.event = event, !.subs = subs]
  /\ UNCHANGED <<subscriptions, eventCount, cancelCount, nextH, mvars, cvars, ovars>>

\* line 104: the subscription is passed over
SkipsWhenCancelled(result, sub) == result.Cancelled

Skips(result, sub) == result.Cancelled /\ sub.IgnoreCancelled

\* lines 109-117: a handler error is recorded and the walk goes on
OnErrorMerging(result, sub, out) ==
  [result EXCEPT !.Errors = Append(@, sub.Handler), !.Cancelled = @ \/ out.Cancelled]

OnError(result, sub, out) == [result EXCEPT !.Errors = Append(@, sub.Handler)]

\* lines 124-126: the handler's modifications overwrite the merged ones
MergedFirstWins(mods, new) ==
  [k \in DOMAIN mods \cup DOMAIN new |-> IF k \in DOMAIN mods THEN mods[k] ELSE new[k]]

Merged(mods, new) ==
  [k \in DOMAIN mods \cup DOMAIN new |-> IF k \in DOMAIN new THEN new[k] ELSE mods[k]]

\* lines 119-127: a handler that returned is counted and its result merged
OnSuccessOverwrites(result, sub, out) ==
  IF out.kind = "nil" THEN [result EXCEPT !.Handlers = @ + 1]
  ELSE [result EXCEPT !.Handlers = @ + 1,
                      !.Cancelled = out.Cancelled,
                      !.Modifications = Merged(@, out.Modifications)]

OnSuccess(result, sub, out) ==
  IF out.kind = "nil" THEN [result EXCEPT !.Handlers = @ + 1]
  ELSE [result EXCEPT !.Handlers = @ + 1,
                      !.Cancelled = @ \/ out.Cancelled,
                      !.Modifications = Merged(@, out.Modifications)]

\* lines 103-128: whether the walk goes on to the next subscription after out
\* (the error branch ends in "continue", the others run to the end of the body)
Continues(out) == TRUE

\* One turn of the loop of Dispatch, for the subscription at idx
DispatchHandler(out) ==
  /\ disp.pc = "walk"
  /\ disp.idx < Len(disp.subs)
  /\ LET sub == At(disp.subs, disp.idx)
         entry(invoked) == [sub |-> sub, cancelledBefore |-> disp.result.Cancelled,
                            invoked |-> invoked, out |-> IF invoked THEN out ELSE Outcome("none")]
     IN  IF Skips(disp.result, sub)
         THEN disp' = [disp EXCEPT !.idx = @ + 1, !.log = Append(@, entry(FALSE))]
         ELSE disp' = [disp EXCEPT
                         !.idx = IF Continues(out) THEN @ + 1 ELSE Len(disp.subs),
                         !.log = Append(@, entry(TRUE)),
                         !.result = IF out.kind = "err" THEN OnError(@, sub, out)
                                    ELSE OnSuccess(@, sub, out)]
  /\ UNCHANGED <<subscriptions, eventCount, cancelCount, nextH, mvars, cvars, ovars>>

\* lines 130-140: the counters of the event, then the result is returned
DispatchFinish ==
  /\ disp.pc = "walk"
  /\ disp.idx = Len(disp.subs)
  /\ eventCount' = [eventCount EXCEPT ![disp.event] = @ + 1]
  /\ cancelCount' = [cancelCount EXCEPT
                       ![disp.event] = IF disp.result.Cancelled THEN @ + 1 ELSE @]
  /\ disp' = [disp EXCEPT !.pc = "done"]
  /\ UNCHANGED <<subscriptions, nextH, mvars, cvars, ovars>>

\* The caller has the result; the next Dispatch can start
DispatchReturn ==
  /\ disp.pc = "done"
  /\ disp' = Idle
  /\ UNCHANGED <<subscriptions, eventCount, cancelCount, nextH, mvars, cvars, ovars>>

\* EventType.IsCancellable, lines 47-58 of part_002: player.chat and
\* block.break are in its list, player.sprint is not
IsCancellable(e) == e \in {"player_chat", "block_break"}

\* PlayerHandler.dispatchEvent, lines 115-136 of handler.go: the cancelled
\* flag it hands to the handler of the game event
dispatchEvent(result) == result.Cancelled

\* HandleToggleSprint, lines 172-178 of handler.go: ctx.Cancel() when
\* dispatchEvent reports a cancellation
HandleToggleSprint(result) == dispatchEvent(result)

\* The subscriptions the model makes: every priority and flag on player_chat,
\* one plain subscription on block_break
SubscribeInputs ==
  [event : {"player_chat"}, priority : Priorities, ignoreCancelled : BOOLEAN]
    \cup [event : {"block_break"}, priority : {PriorityNormal}, ignoreCancelled : {FALSE}]

DNext ==
  \/ /\ nextH < MaxSubscribe
     /\ \E in \in SubscribeInputs, p \in Plugins :
          Subscribe(in.event, p, in.priority, in.ignoreCancelled)
  \/ \E p \in Plugins : Unsubscribe(p)
  \/ \E p \in Plugins, e \in Events : UnsubscribeEvent(p, e)
  \/ \E e \in Events : DispatchSnapshot(e)
  \/ \E out \in Outcomes : DispatchHandler(out)
  \/ DispatchFinish
  \/ DispatchReturn

Spec == Init /\ [][DNext]_vars

(***************************************************************************)
(* The dispatcher with one more subscription on an event than an insertion  *)
(* sort takes: one caller subscribes handlers at two priorities and then    *)
(* dispatches; every handler returns a nil result.                          *)
(***************************************************************************)

OrderNext ==
  \/ /\ nextH < maxInsertion + 1
     /\ disp.pc = "idle"
     /\ \E pr \in {PriorityLow, PriorityNormal} : Subscribe("player_chat", "p.a", pr, FALSE)
  \/ disp.pc = "idle" /\ Unsubscribe("p.a")
  \/ disp.pc = "idle" /\ UnsubscribeEvent("p.a", "player_chat")
  \/ DispatchSnapshot("player_chat")
  \/ DispatchHandler(Outcome("nil"))
  \/ DispatchFinish
  \/ DispatchReturn

SpecOrder == Init /\ [][OrderNext]_vars

\* The dispatcher on an event that is not cancellable: handlers of every
\* priority and flag subscribe to player_sprint, and it is dispatched
SprintNext ==
  \/ /\ nextH < MaxSubscribe
     /\ \E pr \in Priorities, ic \in BOOLEAN, p \in Plugins :
          Subscribe("player_sprint", p, pr, ic)
  \/ DispatchSnapshot("player_sprint")
  \/ \E out \in Outcomes : DispatchHandler(out)
  \/ DispatchFinish
  \/ DispatchReturn

SpecSprint == Init /\ [][SprintNext]_vars

(***************************************************************************)
(* The Manager: dependency resolution                                      *)
(***************************************************************************)

\* The ids the resolvers are given: those of Ids and a.three
ResolveIds == Ids \cup {"a.three"}

\* An id that no manifest has
Absent == "a.zero"

\* sort.Strings orders ids byte by byte: "a.one" < "a.three" < "a.two"
Rank == [id \in ResolveIds |-> IF id = "a.one" THEN 1 ELSE IF id = "a.three" THEN 2 ELSE 3]

\* plugin.Manifest: the fields the Manager reads
Manifest(id, dependencies, loadAfter, events) ==
  [ID |-> id, Dependencies |-> dependencies, LoadAfter |-> loadAfter, Events |-> events]

Dependency(id, optional) == [ID |-> id, Optional |-> optional]

EventSubscription(event, priority, ignoreCancelled) ==
  [Event |-> event, Priority |-> priority, IgnoreCancelled |-> ignoreCancelled]

\* manifestMap, lines 663-666: an id is a key when some manifest has it, and
\* the last manifest with the id is its value
HasID(manifests, id) == \E i \in 1..Len(manifests) : manifests[i].ID = id

manifestMap(manifests, id) ==
  manifests[CHOOSE i \in 1..Len(manifests) :
              /\ manifests[i].ID = id
              /\ \A j \in (i + 1)..Len(manifests) : manifests[j].ID # id]

\* lines 677-681 for the manifest at i: it requires a dependency that no
\* manifest provides
MissingAtAnyDependency(manifests, i) ==
  \E k \in 1..Len(manifests[i].Dependencies) :
    ~HasID(manifests, manifests[i].Dependencies[k].ID)

MissingAt(manifests, i) ==
  \E k \in 1..Len(manifests[i].Dependencies) :
    LET dep == manifests[i].Dependencies[k]
    IN  ~dep.Optional /\ ~HasID(manifests, dep.ID)

MissingDependency(manifests) == \E i \in 1..Len(manifests) : MissingAt(manifests, i)

\* the loop of lines 671-694 returns at the first such manifest and names it
MissingFirst(manifests) ==
  manifests[CHOOSE i \in 1..Len(manifests) :
              MissingAt(manifests, i) /\ \A j \in 1..(i - 1) : ~MissingAt(manifests, j)].ID

\* lines 676-693 for one manifest: the ids it waits for, one for every
\* dependency and every load_after entry that is present, in the order counted
WaitsDependenciesOnly(manifests, m) ==
  SelectSeq([k \in 1..Len(m.Dependencies) |-> m.Dependencies[k].ID],
            LAMBDA id : HasID(manifests, id))

Waits(manifests, m) ==
  SelectSeq([k \in 1..Len(m.Dependencies) |-> m.Dependencies[k].ID],
            LAMBDA id : HasID(manifests, id))
    \o SelectSeq(m.LoadAfter, LAMBDA id : HasID(manifests, id))

\* every counted edge, in the order the loop of lines 671-694 meets them
RECURSIVE Edges(_, _)
Edges(manifests, i) ==
  IF i > Len(manifests) THEN <<>>
  ELSE LET w == Waits(manifests, manifests[i])
       IN  [k \in 1..Len(w) |-> [from |-> manifests[i].ID, to |-> w[k]]]
             \o Edges(manifests, i + 1)

inDegree(manifests) ==
  LET edges == Edges(manifests, 1)
  IN  [id \in {manifests[i].ID : i \in 1..Len(manifests)} |->
         Cardinality({k \in 1..Len(edges) : edges[k].from = id})]

dependents(manifests) ==
  LET edges == Edges(manifests, 1)
      froms == [k \in 1..Len(edges) |-> edges[k]]
  IN  [id \in {manifests[i].ID : i \in 1..Len(manifests)} |->
         LET to == SelectSeq(froms, LAMBDA e : e.to = id)
         IN  [k \in 1..Len(to) |-> to[k].from]]

\* sort.Strings
RECURSIVE SortStrings(_)
SortStrings(s) ==
  IF s = <<>> THEN <<>>
  ELSE LET i == CHOOSE i \in 1..Len(s) : \A j \in 1..Len(s) : Rank[s[i]] <= Rank[s[j]]
       IN  <<s[i]>> \o SortStrings(SubSeq(s, 1, i - 1) \o SubSeq(s, i + 1, Len(s)))

\* lines 696-702: the ids of degree 0 as the map yields them, then sorted
RECURSIVE SetToSeq(_)
SetToSeq(S) ==
  IF S = {} THEN <<>> ELSE LET x == CHOOSE x \in S : TRUE IN <<x>> \o SetToSeq(S \ {x})

\* lines 710-716: every dependent of the emitted id loses one degree; one that
\* reaches 0 joins the queue, which is sorted again
RECURSIVE Release(_, _, _)
Release(deps, inDeg, queue) ==
  IF deps = <<>> THEN [inDegree |-> inDeg, queue |-> queue]
  ELSE LET d == Head(deps)
           n == inDeg[d] - 1
       IN  Release(Tail(deps), [inDeg EXCEPT ![d] = n],
                   IF n = 0 THEN SortStrings(Append(queue, d)) ELSE queue)

\* lines 704-717: the loop over the queue
RECURSIVE Kahn(_, _, _, _)
Kahn(deps, inDeg, queue, result) ==
  IF queue = <<>> THEN result
  ELSE LET id == Head(queue)
           r == Release(deps[id], inDeg, Tail(queue))
       IN  Kahn(deps, r.inDegree, r.queue, Append(result, id))

sortByDependencies(manifests) ==
  IF MissingDependency(manifests)
  THEN [err |-> "missing dependency", who |-> MissingFirst(manifests), sorted |-> <<>>]
  ELSE LET inDeg == inDegree(manifests)
           queue == SortStrings(SetToSeq({id \in DOMAIN inDeg : inDeg[id] = 0}))
           result == Kahn(dependents(manifests), inDeg, queue, <<>>)
       IN  IF Len(result) # Len(manifests)
           THEN [err |-> "circular dependency", who |-> "", sorted |-> <<>>]
           ELSE [err |-> "nil", who |-> "",
                 sorted |-> [k \in 1..Len(result) |-> manifestMap(manifests, result[k])]]

(***************************************************************************)
(* The Loader: dependency resolution by depth-first search                 *)
(***************************************************************************)

\* The ids a manifest visits: its dependencies, then its load_after entries
Visits(m) == [k \in 1..Len(m.Dependencies) |-> m.Dependencies[k].ID] \o m.LoadAfter

\* visit(id) of Loader.ResolveDependencies on st = [err, sorted, visited,
\* visiting], and the two loops inside it; an error ends every loop
RECURSIVE visit(_, _, _)
RECURSIVE visitEach(_, _, _)
visitEach(discovered, st, ids) ==
  IF ids = <<>> \/ st.err # "nil" THEN st
  ELSE visitEach(discovered, visit(discovered, st, Head(ids)), Tail(ids))

visit(discovered, st, id) ==
  IF id \in st.visited THEN st
  ELSE IF id \in st.visiting THEN [st EXCEPT !.err = "circular dependency"]
  ELSE IF ~HasID(discovered, id) THEN st
  ELSE LET r == visitEach(discovered, [st EXCEPT !.visiting = @ \cup {id}],
                          Visits(manifestMap(discovered, id)))
       IN  IF r.err # "nil" THEN r
           ELSE [r EXCEPT !.visiting = @ \ {id}, !.visited = @ \cup {id},
                          !.sorted = Append(@, id)]

\* Loader.ResolveDependencies: the missing-dependency check, then a visit of
\* every plugin in the order of discovery
ResolveDependencies(discovered) ==
  IF MissingDependency(discovered)
  THEN [err |-> "missing dependency", who |-> MissingFirst(discovered), sorted |-> <<>>]
  ELSE LET r == visitEach(discovered, [err |-> "nil", sorted |-> <<>>, visited |-> {},
                                    visiting |-> {}],
                          [i \in 1..Len(discovered) |-> discovered[i].ID])
       IN  IF r.err # "nil" THEN [err |-> r.err, who |-> "", sorted |-> <<>>]
           ELSE [err |-> "nil", who |-> "",
                 sorted |-> [k \in 1..Len(r.sorted) |-> manifestMap(discovered, r.sorted[k])]]

(***************************************************************************)
(* The Manager: loading, enabling, disabling and unloading                 *)
(***************************************************************************)

\* What each plugin's manifest subscribes to
EventsOf ==
  [id \in Ids |->
     IF id = "a.one" THEN <<EventSubscription("player_chat", PriorityNormal, FALSE)>>
     ELSE <<EventSubscription("player_chat", PriorityLow, TRUE),
            EventSubscription("block_break", PriorityNormal, FALSE)>>]

\* The modules that export on_enable, and those that export on_disable
WithOnEnable == {"a.one"}

WithOnDisable == {"a.one"}

\* The manifests a plugin directory can hold for id: at most one edge, a
\* dependency (required or optional) or a load_after entry, on any id of
\* targets
ManifestsOver(id, targets, events) ==
  {Manifest(id, <<>>, <<>>, events)}
    \cup {Manifest(id, <<Dependency(t, o)>>, <<>>, events) : t \in targets, o \in BOOLEAN}
    \cup {Manifest(id, <<>>, <<t>>, events) : t \in targets}

ManifestsOf(id) == ManifestsOver(id, Ids \cup {Absent}, EventsOf[id])

\* The manifests the resolvers are given for id: at most one edge, or a
\* required dependency together with a load_after entry
ResolveManifestsOf(id) ==
  ManifestsOver(id, ResolveIds \cup {Absent}, <<>>)
    \cup {Manifest(id, <<Dependency(t, FALSE)>>, <<u>>, <<>>) : t, u \in ResolveIds}

\* The plugin directories: every id has one manifest or none
RECURSIVE DisksOver(_)
DisksOver(ids) ==
  IF ids = <<>> THEN {<<>>}
  ELSE LET rest == DisksOver(Tail(ids))
       IN  rest \cup {<<m>> \o d : m \in ManifestsOf(Head(ids)), d \in rest}

Disks == DisksOver(<<"a.one", "a.two">>)

\* plugin.NewInfo and lines 740-741, 769: a LoadedPlugin whose module is
\* being loaded; closes counts the Close calls on its engine instance,
\* errors is Info.Metrics.ErrorCount, mu the thread that holds LoadedPlugin.mu
LoadedPlugin(id) ==
  [ID |-> id, State |-> "Loading", closes |-> 0, errors |-> 0, mu |-> "free"]

\* registerEventHandlers: one Subscribe for every event of the manifest; the
\* handler closes over the LoadedPlugin n
RECURSIVE registerEventHandlers(_, _, _, _)
registerEventHandlers(subsOf, id, events, n) ==
  IF events = <<>> THEN subsOf
  ELSE LET sub == Head(events)
       IN  registerEventHandlers(
             [subsOf EXCEPT ![sub.Event] =
                Subscribed(@, Subscription(id, sub.Priority, sub.IgnoreCancelled,
                                           n, sub.Event))],
             id, Tail(events), n)

\* What loading a module can come to: "ok", the module cannot be
\* instantiated, plugin_init fails (a missing export ends like the latter)
LoadOutcomes == {"ok", "create WASM instance", "plugin initialization failed"}

\* line 784: the id joins the load order
Joins(order, id) == Append(order, id)

\* extism.NewPlugin succeeded: one more engine instance that no LoadedPlugin owns
NewPlugin(m) == [m EXCEPT !.open = @ + 1]

\* instance.Close() on the instance of the load under way
InstanceCloseForgotten(m) == m

InstanceClose(m) == [m EXCEPT !.open = @ - 1]

\* loadPlugin on the manager state m = [plugins, loadOrder, loaded,
\* subscriptions, open, err]; open counts the engine instances that exist
\* and belong to no LoadedPlugin of m.loaded.  extism.NewPlugin either fails
\* or yields an instance; the instance of a load that fails later is closed
\* (lines 761, 765, 775) before the error is returned.
loadPlugin(m, manifest, out) ==
  IF m.plugins[manifest.ID] # NoPlugin THEN [m EXCEPT !.err = "already loaded"]
  ELSE IF out = "create WASM instance" THEN [m EXCEPT !.err = out]
  ELSE IF out # "ok" THEN [InstanceClose(NewPlugin(m)) EXCEPT !.err = out]
  ELSE LET n == Len(m.loaded) + 1
       IN  [plugins |-> [m.plugins EXCEPT ![manifest.ID] = n],
            open |-> m.open,
            loadOrder |-> Joins(m.loadOrder, manifest.ID),
            loaded |-> Append(m.loaded, [LoadedPlugin(manifest.ID) EXCEPT !.State = "Loaded"]),
            subscriptions |->
              registerEventHandlers(m.subscriptions, manifest.ID, manifest.Events, n),
            err |-> "nil"]

\* lines 635-639: loadPlugin for every manifest in resolution order; a
\* failure is logged and the loop goes on
RECURSIVE LoadEach(_, _, _)
LoadEach(m, sorted, outs) ==
  IF sorted = <<>> THEN m
  ELSE LoadEach(loadPlugin(m, Head(sorted), outs[Head(sorted).ID]), Tail(sorted), outs)

\* The Manager's fields as loadPlugin sees them
Fields == [plugins |-> plugins, loadOrder |-> loadOrder, loaded |-> loaded,
           subscriptions |-> subscriptions, open |-> 0, err |-> "nil"]

\* LoadAll: discover, resolve, load.  A resolution error is returned and
\* nothing is loaded; per-plugin failures leave the result nil.
LoadAll(outs) ==
  \E s \in {sortByDependencies(disk)} : \E m \in {LoadEach(Fields, s.sorted, outs)} :
      /\ Len(m.loaded) <= MaxLoaded
      /\ plugins' = m.plugins
      /\ loadOrder' = m.loadOrder
      /\ loaded' = m.loaded
      /\ subscriptions' = m.subscriptions
      /\ mret' = [Ret("LoadAll", s.who, s.err) EXCEPT
                    !.open = m.open,
                    !.sound = {disk[i].ID : i \in {j \in 1..Len(disk) : outs[disk[j].ID] = "ok"}}]
      /\ UNCHANGED <<disk, eventCount, cancelCount, nextH, disp, cvars, ovars>>

\* line 876: the states EnablePlugin starts from
EnablableAlsoError(st) == st \in {"Loaded", "Disabled", "Error"}

Enablable(st) == st \in {"Loaded", "Disabled"}

\* EnablePlugin: on_enable, when the module exports it, returns out
EnablePlugin(id, out) ==
  LET n == plugins[id]
      st == IF n = NoPlugin THEN "" ELSE loaded[n].State
  IN  /\ IF n = NoPlugin THEN
           /\ mret' = Ret("EnablePlugin", id, "not found")
           /\ UNCHANGED loaded
         ELSE IF st = "Enabled" THEN
           /\ mret' = Ret("EnablePlugin", id, "nil")
           /\ UNCHANGED loaded
         ELSE IF ~Enablable(st) THEN
           /\ mret' = Ret("EnablePlugin", id, "cannot be enabled")
           /\ UNCHANGED loaded
         ELSE IF id \in WithOnEnable /\ out = "err" THEN
           /\ loaded' = [loaded EXCEPT ![n].State = "Error", ![n].errors = @ + 1]
           /\ mret' = Ret("EnablePlugin", id, "enable callback failed")
         ELSE
           /\ loaded' = [loaded EXCEPT ![n].State = "Enabled"]
           /\ mret' = Ret("EnablePlugin", id, "nil")
      /\ UNCHANGED <<disk, plugins, loadOrder, dvars, cvars, ovars>>

\* DisablePlugin, lines 912-919: what on_disable returns is dropped
Disabled(objs, n) == [objs EXCEPT ![n].State = "Disabled"]

DisablePlugin(id) ==
  LET n == plugins[id]
      st == IF n = NoPlugin THEN "" ELSE loaded[n].State
  IN  /\ IF n = NoPlugin THEN
           /\ mret' = Ret("DisablePlugin", id, "not found")
           /\ UNCHANGED loaded
         ELSE IF st # "Enabled" THEN
           /\ mret' = Ret("DisablePlugin", id, "nil")
           /\ UNCHANGED loaded
         ELSE
           /\ loaded' = Disabled(loaded, n)
           /\ mret' = Ret("DisablePlugin", id, "nil")
      /\ UNCHANGED <<disk, plugins, loadOrder, dvars, cvars, ovars>>

\* line 945: slices.DeleteFunc(m.loadOrder, s == id)
KeepID(order, id) == order

DeleteID(order, id) == SelectSeq(order, LAMBDA s : s # id)

\* UnloadPlugin with no other call in between: an Enabled plugin is disabled
\* first; then its subscriptions go, its instance is closed, its entry is
\* deleted and its id leaves the load order
UnloadPlugin(id) ==
  LET n == plugins[id]
      st == IF n = NoPlugin THEN "" ELSE loaded[n].State
      objs == IF st = "Enabled" THEN Disabled(loaded, n) ELSE loaded
  IN  /\ IF n = NoPlugin THEN
           /\ mret' = Ret("UnloadPlugin", id, "not found")
           /\ UNCHANGED <<subscriptions, loaded, plugins, loadOrder>>
         ELSE
           /\ subscriptions' = Unsubscribed(subscriptions, id)
           /\ loaded' = [objs EXCEPT ![n].State = "Unloaded", ![n].closes = @ + 1]
           /\ plugins' = [plugins EXCEPT ![id] = NoPlugin]
           /\ loadOrder' = DeleteID(loadOrder, id)
           /\ mret' = Ret("UnloadPlugin", id, "nil")
      /\ UNCHANGED <<disk, eventCount, cancelCount, nextH, disp, cvars, ovars>>

\* slices.Reverse
Reverse(ids) == [k \in 1..Len(ids) |-> ids[Len(ids) + 1 - k]]

\* EnableAll, lines 957-961: EnablePlugin for every id of the snapshot, in
\* order, on acc = [loaded, calls]; an id without a plugin, a plugin that is
\* Enabled or cannot be enabled, and a failing on_enable do not end the loop.
\* calls gets the ids that became Enabled.
RECURSIVE EnableEach(_, _, _)
EnableEach(acc, ids, outs) ==
  IF ids = <<>> THEN acc
  ELSE LET id == Head(ids)
           n == plugins[id]
           st == IF n = NoPlugin THEN "" ELSE acc.loaded[n].State
           next ==
             IF n = NoPlugin \/ st = "Enabled" \/ ~Enablable(st) THEN acc
             ELSE IF id \in WithOnEnable /\ outs[id] = "err"
             THEN [acc EXCEPT !.loaded[n].State = "Error", !.loaded[n].errors = @ + 1]
             ELSE [acc EXCEPT !.loaded[n].State = "Enabled", !.calls = Append(@, id)]
       IN  EnableEach(next, Tail(ids), outs)

EnableAll(outs) ==
  \E r \in {EnableEach([loaded |-> loaded, calls |-> <<>>], loadOrder, outs)} :
    /\ loaded' = r.loaded
    /\ mret' = [Ret("EnableAll", "", "nil") EXCEPT !.calls = r.calls]
    /\ UNCHANGED <<disk, plugins, loadOrder, dvars, cvars, ovars>>

\* line 970: the order in which DisableAll walks the snapshot
DisableOrder(ids) == Reverse(ids)

\* DisableAll, lines 971-975: DisablePlugin for every id; calls gets the ids
\* that were Enabled and became Disabled
RECURSIVE DisableEach(_, _)
DisableEach(acc, ids) ==
  IF ids = <<>> THEN acc
  ELSE LET id == Head(ids)
           n == plugins[id]
           next ==
             IF n = NoPlugin \/ acc.loaded[n].State # "Enabled" THEN acc
             ELSE [acc EXCEPT !.loaded = Disabled(@, n), !.calls = Append(@, id)]
       IN  DisableEach(next, Tail(ids))

DisableAll ==
  \E r \in {DisableEach([loaded |-> loaded, calls |-> <<>>], DisableOrder(loadOrder))} :
    /\ loaded' = r.loaded
    /\ mret' = [Ret("DisableAll", "", "nil") EXCEPT !.calls = r.calls]
    /\ UNCHANGED <<disk, plugins, loadOrder, dvars, cvars, ovars>>

\* Close, lines 985-988: the engine instance of every plugin in the map is
\* closed and its entry deleted
ClosedAll(objs) ==
  [n \in 1..Len(objs) |->
     IF \E id \in Ids : plugins[id] = n THEN [objs[n] EXCEPT !.closes = @ + 1] ELSE objs[n]]

\* Close: DisableAll, then the loop over the map; loadOrder and the
\* dispatcher are not touched
Close ==
  \E r \in {DisableEach([loaded |-> loaded, calls |-> <<>>], DisableOrder(loadOrder))} :
    /\ loaded' = ClosedAll(r.loaded)
    /\ plugins' = [id \in Ids |-> NoPlugin]
    /\ mret' = [Ret("Close", "", "nil") EXCEPT !.calls = r.calls]
    /\ UNCHANGED <<disk, loadOrder, dvars, cvars, ovars>>

\* GetAllPlugins, lines 999-1008: the map's entry for every id of loadOrder
GetAllPlugins == [k \in 1..Len(loadOrder) |-> plugins[loadOrder[k]]]

\* GetPlugin
GetPlugin(id) == [p |-> plugins[id], ok |-> plugins[id] # NoPlugin]

LoadNext ==
  \/ \E outs \in [Ids -> LoadOutcomes] : LoadAll(outs)
  \/ \E id \in Ids, out \in {"ok", "err"} : EnablePlugin(id, out)
  \/ \E id \in Ids : DisablePlugin(id)
  \/ \E id \in Ids : UnloadPlugin(id)

\* New over any plugin directory
LoadInit == DInit /\ MInit /\ CInit /\ OInit /\ disk \in Disks

SpecLoad == LoadInit /\ [][LoadNext]_vars

\* The Manager as the server drives it: LoadAll, EnableAll, DisableAll, Close
AllNext ==
  \/ \E outs \in [Ids -> LoadOutcomes] : LoadAll(outs)
  \/ \E outs \in [WithOnEnable -> {"ok", "err"}] : EnableAll(outs)
  \/ DisableAll
  \/ Close

SpecAll == LoadInit /\ [][AllNext]_vars

\* The Manager over a directory with both plugins, neither depending on the
\* other, and the dispatcher's Unsubscribe and UnsubscribeEvent beside it
UnloadNext ==
  \/ LoadNext
  \/ \E id \in Ids : Unsubscribe(id)
  \/ \E id \in Ids, e \in Events : UnsubscribeEvent(id, e)

UnloadInit ==
  /\ DInit /\ MInit /\ CInit /\ OInit
  /\ disk = <<Manifest("a.one", <<>>, <<>>, EventsOf["a.one"]),
              Manifest("a.two", <<>>, <<>>, EventsOf["a.two"])>>

SpecUnload == UnloadInit /\ [][UnloadNext]_vars

(***************************************************************************)
(* The two resolvers on every discovery                                    *)
(***************************************************************************)

\* What a resolver returned: the error, the plugin it names, the ids in order
Resolved(op, r) ==
  [Ret(op, r.who, r.err) EXCEPT !.calls = [k \in 1..Len(r.sorted) |-> r.sorted[k].ID]]

\* One round of the discovery loop (LoadAll lines 607-628, Loader.Discover):
\* the manifest of one more directory joins the list; ids are distinct
Discovers(m) ==
  /\ mret.op = "New"
  /\ ~HasID(disk, m.ID)
  /\ disk' = Append(disk, m)
  /\ UNCHANGED <<plugins, loadOrder, loaded, mret, dvars, cvars, ovars>>

ManagerResolves ==
  /\ mret' = Resolved("sortByDependencies", sortByDependencies(disk))
  /\ UNCHANGED <<disk, plugins, loadOrder, loaded, dvars, cvars, ovars>>

LoaderResolves ==
  /\ mret' = Resolved("ResolveDependencies", ResolveDependencies(disk))
  /\ UNCHANGED <<disk, plugins, loadOrder, loaded, dvars, cvars, ovars>>

ResolveNext ==
  \/ \E id \in ResolveIds : \E m \in ResolveManifestsOf(id) : Discovers(m)
  \/ ManagerResolves
  \/ LoaderResolves

SpecResolve == Init /\ [][ResolveNext]_vars

(***************************************************************************)
(* Properties of the Manager                                               *)
(***************************************************************************)

\* a's manifest has a required dependency on b or names b in load_after
Needs(a, b) ==
  \E i \in 1..Len(disk) :
    /\ disk[i].ID = a
    /\ \/ \E k \in 1..Len(disk[i].Dependencies) :
            disk[i].Dependencies[k].ID = b /\ ~disk[i].Dependencies[k].Optional
       \/ b \in Range(disk[i].LoadAfter)

Before(order, b, a) ==
  \E i, j \in 1..Len(order) : i < j /\ order[i] = b /\ order[j] = a

\* C1: whatever Manager calls were made, for all plugins A and B that are both
\* in loadOrder, if A requires B as a dependency or names B in load_after then
\* B stands before A in loadOrder.
C1_LoadOrderRespectsEdges ==
  \A a, b \in Range(loadOrder) : Needs(a, b) => Before(loadOrder, b, a)

\* The discovered ids, and the plugins with a non-optional dependency on an
\* id that was not discovered
Discovered == {disk[i].ID : i \in 1..Len(disk)}

RequiresAbsent(a) ==
  \E i \in 1..Len(disk) : \E d \in Range(disk[i].Dependencies) :
    disk[i].ID = a /\ ~d.Optional /\ d.ID \notin Discovered

\* a's manifest names the discovered plugin b as a dependency, optional or
\* not, or in load_after
Edge(a, b) ==
  /\ b \in Discovered
  /\ \E i \in 1..Len(disk) :
       /\ disk[i].ID = a
       /\ \/ \E d \in Range(disk[i].Dependencies) : d.ID = b
          \/ b \in Range(disk[i].LoadAfter)

\* b is reached from a over at least one and at most k edges
RECURSIVE Reaches(_, _, _)
Reaches(a, b, k) ==
  \/ Edge(a, b)
  \/ k > 1 /\ \E c \in Discovered : Edge(a, c) /\ Reaches(c, b, k - 1)

OnCycle(a) == Reaches(a, a, Len(disk))

HasCycle == \E a \in Discovered : OnCycle(a)

Resolving == mret.op \in {"sortByDependencies", "ResolveDependencies"}

\* C14: when no required dependency is missing, each resolver returns the
\* circular-dependency error exactly when the dependency and load_after edges
\* between discovered plugins hold a cycle (a self-dependency included), and
\* then hands no plugin on to be loaded; without a cycle the result holds
\* every discovered manifest exactly once.
C14_CycleExactly ==
  (Resolving /\ ~\E a \in Discovered : RequiresAbsent(a)) =>
    /\ (mret.err = "circular dependency") <=> HasCycle
    /\ HasCycle => \A a \in Discovered : OnCycle(a) => a \notin Range(mret.calls)
    /\ ~HasCycle =>
         /\ mret.err = "nil"
         /\ Len(mret.calls) = Len(disk)
         /\ Range(mret.calls) = Discovered

\* C14 witness: sortByDependencies refused a cycle through three plugins
C14_Witness ==
  /\ mret.op = "sortByDependencies" /\ mret.err = "circular dependency"
  /\ Len(disk) = 3
  /\ \A a, b \in Discovered : Edge(a, b) => ~Edge(b, a)

\* The discovered plugins that can be emitted once the plugins of emitted are
Ready(emitted) ==
  {a \in Discovered \ emitted : \A b \in Discovered : Edge(a, b) => b \in emitted}

\* C15: the order a resolver returns does not depend on the order of
\* discovery: every plugin in it is the one with the smallest id, in the order
\* of sort.Strings, among the plugins whose predecessors were all emitted
\* before it.
C15_SmallestReadyFirst ==
  (Resolving /\ mret.err = "nil") =>
    \A k \in 1..Len(mret.calls) :
      LET ready == Ready({mret.calls[j] : j \in 1..(k - 1)})
      IN  /\ mret.calls[k] \in ready
          /\ \A a \in ready : Rank[mret.calls[k]] <= Rank[a]

\* C12: after a LoadAll over a directory without a dependency cycle, every
\* discovered plugin whose own required dependencies are all present and whose
\* module loads is in the plugin map, whatever is wrong with the other plugins.
C12_OthersStillLoad ==
  (mret.op = "LoadAll" /\ mret.err # "circular dependency") =>
    \A i \in 1..Len(disk) :
      (~MissingAt(disk, i) /\ disk[i].ID \in mret.sound) => GetPlugin(disk[i].ID).ok

\* A lone plugin whose only dependency is optional and absent
LoneWithAbsentOptional ==
  /\ Len(disk) = 1
  /\ disk[1].LoadAfter = <<>>
  /\ Len(disk[1].Dependencies) = 1
  /\ disk[1].Dependencies[1].Optional
  /\ disk[1].Dependencies[1].ID \notin Discovered

C16_FailedLoadChangesNothing ==
  /\ mret.open = 0
  /\ \A i \in 1..Len(disk) : \A out \in LoadOutcomes :
       LET r == loadPlugin(Fields, disk[i], out)
       IN  r.err # "nil" =>
             /\ r.plugins = plugins
             /\ r.loadOrder = loadOrder
             /\ r.subscriptions = subscriptions
             /\ r.loaded = loaded
             /\ r.open = 0

\* C16 witness: a LoadAll loaded one plugin with its subscriptions while the
\* module of another discovered plugin failed to load
C16_Witness ==
  /\ mret.op = "LoadAll" /\ mret.err = "nil"
  /\ \E a, b \in Discovered :
       /\ a \notin mret.sound /\ ~GetPlugin(a).ok
       /\ GetPlugin(b).ok
       /\ \E e \in Events : \E sub \in Range(subscriptions[e]) : sub.PluginID = b

\* C17: once Close has returned, no plugin is in the plugin map or in
\* loadOrder, the dispatcher holds no subscription, and the engine instance of
\* every plugin that was ever loaded has been closed exactly once.
C17_CloseUnloadsAll ==
  mret.op = "Close" =>
    /\ \A id \in Ids : ~GetPlugin(id).ok
    /\ loadOrder = <<>>
    /\ \A e \in Events : subscriptions[e] = <<>>
    /\ \A n \in 1..Len(loaded) : loaded[n].closes = 1

\* a's manifest names b as a dependency
DependsOn(a, b) ==
  \E i \in 1..Len(disk) : \E d \in Range(disk[i].Dependencies) : disk[i].ID = a /\ d.ID = b

\* C18: of two plugins that an EnableAll enabled, one that depends on the
\* other was enabled after it; of two that a DisableAll disabled, one that
\* depends on the other was disabled before it.
C18_DependentsInsideDependencies ==
  \A a, b \in Range(mret.calls) :
    DependsOn(a, b) =>
      /\ mret.op = "EnableAll" => Before(mret.calls, b, a)
      /\ mret.op = "DisableAll" => Before(mret.calls, a, b)

\* C10: once UnloadPlugin(id) has returned success, GetPlugin(id) finds no
\* plugin, id is not in loadOrder and no event holds a subscription of id,
\* whatever state the plugin was in.
C10_UnloadLeavesNothing ==
  (mret.op = "UnloadPlugin" /\ mret.err = "nil") =>
    /\ ~GetPlugin(mret.id).ok
    /\ mret.id \notin Range(loadOrder)
    /\ \A e \in Events : \A s \in Range(subscriptions[e]) : s.PluginID # mret.id

\* C10 witness: an unload of a plugin in state Error returned success while
\* another plugin stays loaded with its subscriptions
C10_Witness ==
  /\ mret.op = "UnloadPlugin" /\ mret.err = "nil"
  /\ \E n \in 1..Len(loaded) :
       loaded[n].ID = mret.id /\ loaded[n].State = "Unloaded" /\ loaded[n].errors = 1
  /\ \E e \in Events : subscriptions[e] # <<>>

(***************************************************************************)
(* Guest calls and the threads that make them                              *)
(***************************************************************************)

\* A guest call k executing on the engine instance of object n of kind on
\* ("LoadedPlugin", "Instance", "PluginInstance"); async: it runs in a
\* goroutine of its own and hands its result over resultCh
GuestCall(k, on, n, fn, async) == [k |-> k, on |-> on, n |-> n, fn |-> fn, async |-> async]

\* The thread is back at its caller with ret
Returns(c, ret) == [NoCall EXCEPT !.op = c.op, !.ret = ret, !.st = c.st]

\* The thread is back at its caller after the deadline passed; the error
\* counter stood at c.before when the call began and stands at after now
ReturnsLate(c, ret, after) ==
  [NoCall EXCEPT !.op = c.op, !.ret = ret, !.before = c.before, !.after = after,
                 !.st = c.st]

\* An idle thread begins call number started + 1, standing as c says
Begin(t, c) ==
  /\ thr[t].pc = "idle"
  /\ started < MaxCalls
  /\ started' = started + 1
  /\ thr' = [thr EXCEPT ![t] = [c EXCEPT !.k = started + 1]]

Call(op, id, n, pc) == [NoCall EXCEPT !.pc = pc, !.op = op, !.id = id, !.n = n]

\* The goroutine's Plugin.Call returns and the result goes into resultCh
\* (buffered: the goroutine ends even when nobody waits on it any more, and
\* then nobody ever reads the result)
GuestReturns(g) ==
  /\ g \in guest
  /\ g.async
  /\ guest' = guest \ {g}
  /\ chan' = IF \E t \in Threads : thr[t].k = g.k /\ thr[t].pc \in {"h:wait", "i:wait", "p:wait"}
             THEN chan \cup {g.k} ELSE chan
  /\ UNCHANGED <<dvars, mvars, mu, thr, started, inst, pinst, ovars>>

(***************************************************************************)
(* The Manager under concurrent callers                                    *)
(***************************************************************************)

\* Dispatch, lines 91-107 of dispatcher.go: a Dispatch finds a subscription in
\* its snapshot and goes on to call its handler
HandlerCalled(t) ==
  /\ \E e \in Events : \E sub \in Range(subscriptions[e]) :
       Begin(t, Call("handler", sub.PluginID, sub.Handler, "h:lock"))
  /\ UNCHANGED <<dvars, mvars, mu, guest, chan, inst, pinst, ovars>>

\* createEventHandler, lines 805-831: lock, check the state, start the
\* goroutine that calls handle_event (its guest call is taken to begin at once)
HandlerLock(t) ==
  /\ thr[t].pc = "h:lock"
  /\ LET n == thr[t].n
     IN  /\ loaded[n].mu = "free"
         /\ IF loaded[n].State \notin {"Enabled", "Loaded"}
            THEN /\ thr' = [thr EXCEPT ![t] = Returns([@ EXCEPT !.st = loaded[n].State],
                                                      "nil")]
                 /\ UNCHANGED <<loaded, guest>>
            ELSE /\ loaded' = [loaded EXCEPT ![n].mu = t]
                 /\ guest' = guest \cup
                      {GuestCall(thr[t].k, "LoadedPlugin", n, "handle_event", TRUE)}
                 /\ thr' = [thr EXCEPT ![t].pc = "h:wait", ![t].before = loaded[n].errors,
                                       ![t].st = loaded[n].State]
  /\ UNCHANGED <<dvars, disk, plugins, loadOrder, mret, mu, chan, started, inst, pinst, ovars>>

\* lines 838-847: the result arrived in time
HandlerResult(t, out) ==
  /\ thr[t].pc = "h:wait"
  /\ thr[t].k \in chan
  /\ chan' = chan \ {thr[t].k}
  /\ loaded' = [loaded EXCEPT ![thr[t].n].mu = "free",
                              ![thr[t].n].errors = IF out = "err" THEN @ + 1 ELSE @]
  /\ thr' = [thr EXCEPT ![t] = Returns(@, IF out = "err" THEN "error" ELSE "result")]
  /\ UNCHANGED <<dvars, disk, plugins, loadOrder, mret, mu, guest, started, inst, pinst, ovars>>

\* lines 834-836: the deadline passed first; RecordError(ctx.Err()) gets the
\* error of the handler's own deadline context.  The goroutine is left alone.
HandlerTimeout(t) ==
  /\ thr[t].pc = "h:wait"
  /\ chan' = chan \ {thr[t].k}
  /\ loaded' = [loaded EXCEPT ![thr[t].n].mu = "free", ![thr[t].n].errors = @ + 1]
  /\ thr' = [thr EXCEPT ![t] = ReturnsLate(@, "timeout", loaded[thr[t].n].errors + 1)]
  /\ UNCHANGED <<dvars, disk, plugins, loadOrder, mret, mu, guest, started, inst, pinst, ovars>>

EnableCalled(t, id) ==
  /\ Begin(t, Call("enable", id, 0, "e:mu"))
  /\ UNCHANGED <<dvars, mvars, mu, guest, chan, inst, pinst, ovars>>

\* EnablePlugin, lines 861-867
EnableLock(t) ==
  /\ thr[t].pc = "e:mu"
  /\ mu = "free"
  /\ IF plugins[thr[t].id] = NoPlugin
     THEN /\ thr' = [thr EXCEPT ![t] = Returns(@, "not found")]
          /\ UNCHANGED mu
     ELSE /\ mu' = t
          /\ thr' = [thr EXCEPT ![t].pc = "e:lmu", ![t].m = plugins[thr[t].id]]
  /\ UNCHANGED <<dvars, mvars, guest, chan, started, inst, pinst, ovars>>

\* lines 869-888: under both locks; the state becomes Enabling and on_enable,
\* when the module exports it, runs on the caller's thread
EnableLocked(t) ==
  /\ thr[t].pc = "e:lmu"
  /\ LET m == thr[t].m
         st == loaded[m].State
     IN  /\ loaded[m].mu = "free"
         /\ IF st = "Enabled" THEN
              /\ thr' = [thr EXCEPT ![t] = Returns(@, "nil")]
              /\ mu' = "free"
              /\ UNCHANGED <<loaded, guest>>
            ELSE IF ~Enablable(st) THEN
              /\ thr' = [thr EXCEPT ![t] = Returns(@, "cannot be enabled")]
              /\ mu' = "free"
              /\ UNCHANGED <<loaded, guest>>
            ELSE
              /\ loaded' = [loaded EXCEPT ![m].State = "Enabling", ![m].mu = t]
              /\ guest' = IF thr[t].id \in WithOnEnable
                           THEN guest \cup {GuestCall(thr[t].k, "LoadedPlugin", m,
                                                      "on_enable", FALSE)}
                           ELSE guest
              /\ thr' = [thr EXCEPT ![t].pc = "e:guest"]
              /\ UNCHANGED mu
  /\ UNCHANGED <<dvars, disk, plugins, loadOrder, mret, chan, started, inst, pinst, ovars>>

\* lines 883-893: on_enable returned out (there is no error without on_enable)
EnableReturns(t, out) ==
  /\ thr[t].pc = "e:guest"
  /\ out = "err" => thr[t].id \in WithOnEnable
  /\ guest' = {g \in guest : g.k # thr[t].k}
  /\ loaded' = [loaded EXCEPT ![thr[t].m].mu = "free",
                              ![thr[t].m].State = IF out = "err" THEN "Error" ELSE "Enabled",
                              ![thr[t].m].errors = IF out = "err" THEN @ + 1 ELSE @]
  /\ mu' = "free"
  /\ thr' = [thr EXCEPT ![t] = Returns(@, IF out = "err" THEN "enable callback failed"
                                                          ELSE "nil")]
  /\ UNCHANGED <<dvars, disk, plugins, loadOrder, mret, chan, started, inst, pinst, ovars>>

DisableCalled(t, id) ==
  /\ Begin(t, Call("disable", id, 0, "d:mu"))
  /\ UNCHANGED <<dvars, mvars, mu, guest, chan, inst, pinst, ovars>>

\* DisablePlugin is done: its caller is UnloadPlugin, which goes on to take
\* the Manager lock again, or the thread's own caller
AfterDisable(c) == IF c.op = "unload" THEN [c EXCEPT !.pc = "u:relock"] ELSE Returns(c, "nil")

\* DisablePlugin, lines 897-903
DisableLock(t) ==
  /\ thr[t].pc = "d:mu"
  /\ mu = "free"
  /\ IF plugins[thr[t].id] = NoPlugin
     THEN /\ thr' = [thr EXCEPT ![t] = Returns(@, "not found")]
          /\ UNCHANGED mu
     ELSE /\ mu' = t
          /\ thr' = [thr EXCEPT ![t].pc = "d:lmu", ![t].m = plugins[thr[t].id]]
  /\ UNCHANGED <<dvars, mvars, guest, chan, started, inst, pinst, ovars>>

\* lines 905-916: under both locks; the state becomes Disabling and
\* on_disable, when the module exports it, runs on the caller's thread
DisableLocked(t) ==
  /\ thr[t].pc = "d:lmu"
  /\ LET m == thr[t].m
     IN  /\ loaded[m].mu = "free"
         /\ IF loaded[m].State # "Enabled" THEN
              /\ thr' = [thr EXCEPT ![t] = AfterDisable(@)]
              /\ mu' = "free"
              /\ UNCHANGED <<loaded, guest>>
            ELSE
              /\ loaded' = [loaded EXCEPT ![m].State = "Disabling", ![m].mu = t]
              /\ guest' = IF thr[t].id \in WithOnDisable
                           THEN guest \cup {GuestCall(thr[t].k, "LoadedPlugin", m,
                                                      "on_disable", FALSE)}
                           ELSE guest
              /\ thr' = [thr EXCEPT ![t].pc = "d:guest"]
              /\ UNCHANGED mu
  /\ UNCHANGED <<dvars, disk, plugins, loadOrder, mret, chan, started, inst, pinst, ovars>>

\* lines 915-921: on_disable returned; what it returned is dropped
DisableReturns(t) ==
  /\ thr[t].pc = "d:guest"
  /\ guest' = {g \in guest : g.k # thr[t].k}
  /\ loaded' = [Disabled(loaded, thr[t].m) EXCEPT ![thr[t].m].mu = "free"]
  /\ mu' = "free"
  /\ thr' = [thr EXCEPT ![t] = AfterDisable(@)]
  /\ UNCHANGED <<dvars, disk, plugins, loadOrder, mret, chan, started, inst, pinst, ovars>>

UnloadCalled(t, id) ==
  /\ Begin(t, Call("unload", id, 0, "u:mu"))
  /\ UNCHANGED <<dvars, mvars, mu, guest, chan, inst, pinst, ovars>>

\* UnloadPlugin, lines 940-946, for the LoadedPlugin n it looked up
UnloadFinish(t, n) ==
  /\ subscriptions' = Unsubscribed(subscriptions, thr[t].id)
  /\ loaded' = [loaded EXCEPT ![n].State = "Unloaded", ![n].closes = @ + 1]
  /\ plugins' = [plugins EXCEPT ![thr[t].id] = NoPlugin]
  /\ loadOrder' = DeleteID(loadOrder, thr[t].id)
  /\ thr' = [thr EXCEPT ![t] = Returns(@, "nil")]

\* lines 925-938: look the plugin up; an Enabled one is disabled with the
\* Manager lock released, any other is unloaded in the same critical section
UnloadLock(t) ==
  /\ thr[t].pc = "u:mu"
  /\ mu = "free"
  /\ LET n == plugins[thr[t].id]
     IN  IF n = NoPlugin THEN
           /\ thr' = [thr EXCEPT ![t] = Returns(@, "not found")]
           /\ UNCHANGED <<subscriptions, loaded, plugins, loadOrder>>
         ELSE IF loaded[n].State = "Enabled" THEN
           /\ thr' = [thr EXCEPT ![t].pc = "d:mu", ![t].n = n]
           /\ UNCHANGED <<subscriptions, loaded, plugins, loadOrder>>
         ELSE UnloadFinish(t, n)
  /\ UNCHANGED <<eventCount, cancelCount, nextH, disp, disk, mret, mu, guest, chan, started, inst, pinst, ovars>>

\* lines 937-946: DisablePlugin returned nil; the Manager lock is taken again
UnloadRelock(t) ==
  /\ thr[t].pc = "u:relock"
  /\ mu = "free"
  /\ UnloadFinish(t, thr[t].n)
  /\ UNCHANGED <<eventCount, cancelCount, nextH, disp, disk, mret, mu, guest, chan, started, inst, pinst, ovars>>

\* The state after New and a LoadAll that loaded one plugin: a.one, which
\* exports on_enable and on_disable, or a.two, which does not
ConcInit ==
  /\ disk \in {<<Manifest(id, <<>>, <<>>, EventsOf[id])>> : id \in Ids}
  /\ LET m == LoadEach([plugins |-> [id \in Ids |-> NoPlugin], loadOrder |-> <<>>,
                        loaded |-> <<>>, subscriptions |-> [e \in Events |-> <<>>],
                        open |-> 0, err |-> "nil"],
                       sortByDependencies(disk).sorted, [id \in Ids |-> "ok"])
     IN  /\ plugins = m.plugins
         /\ loadOrder = m.loadOrder
         /\ loaded = m.loaded
         /\ subscriptions = m.subscriptions
  /\ mret = Ret("LoadAll", "", "nil")
  /\ eventCount = [e \in Events |-> 0]
  /\ cancelCount = [e \in Events |-> 0]
  /\ nextH = 0
  /\ disp = Idle
  /\ CInit
  /\ OInit

ConcNext ==
  \/ \E t \in Threads : HandlerCalled(t)
  \/ \E t \in Threads : HandlerLock(t)
  \/ \E t \in Threads, out \in {"ok", "err"} : HandlerResult(t, out)
  \/ \E t \in Threads : HandlerTimeout(t)
  \/ \E g \in guest : GuestReturns(g)
  \/ \E t \in Threads, id \in Ids : EnableCalled(t, id)
  \/ \E t \in Threads : EnableLock(t)
  \/ \E t \in Threads : EnableLocked(t)
  \/ \E t \in Threads, out \in {"ok", "err"} : EnableReturns(t, out)
  \/ \E t \in Threads, id \in Ids : DisableCalled(t, id)
  \/ \E t \in Threads : DisableLock(t)
  \/ \E t \in Threads : DisableLocked(t)
  \/ \E t \in Threads : DisableReturns(t)
  \/ \E t \in Threads, id \in Ids : UnloadCalled(t, id)
  \/ \E t \in Threads : UnloadLock(t)
  \/ \E t \in Threads : UnloadRelock(t)

SpecConc == ConcInit /\ [][ConcNext]_vars

\* EnablePlugin and DisablePlugin on a module without the callback: no guest
\* call stands between the two assignments of the state
EnableGoesOn(t) == thr[t].id \notin WithOnEnable /\ EnableReturns(t, "ok")

DisableGoesOn(t) == thr[t].id \notin WithOnDisable /\ DisableReturns(t)

\* What the scheduler, the mutexes and the timers guarantee: a thread that can
\* go on does, a thread that waits for a mutex gets it when it is free again
\* and again, and the deadline of a select passes.  Nothing makes a guest
\* function return: GuestReturns, and EnableReturns and DisableReturns after
\* a callback, are free.
Fairness ==
  \A t \in Threads :
    /\ WF_vars(HandlerTimeout(t))
    /\ WF_vars(EnableGoesOn(t))
    /\ WF_vars(DisableGoesOn(t))
    /\ SF_vars(HandlerLock(t))
    /\ SF_vars(EnableLock(t))
    /\ SF_vars(EnableLocked(t))
    /\ SF_vars(DisableLock(t))
    /\ SF_vars(DisableLocked(t))
    /\ SF_vars(UnloadLock(t))
    /\ SF_vars(UnloadRelock(t))

SpecLive == ConcInit /\ [][ConcNext]_vars /\ Fairness

\* The edges of the plugin state machine
StateEdges ==
  {<<"Loading", "Loaded">>, <<"Loaded", "Enabling">>, <<"Disabled", "Enabling">>,
   <<"Enabling", "Enabled">>, <<"Enabling", "Error">>, <<"Enabled", "Disabling">>,
   <<"Disabling", "Disabled">>}
    \cup {<<st, "Unloaded">> : st \in {"Loading", "Loaded", "Enabling", "Enabled",
                                      "Disabling", "Disabled", "Error"}}

C19_EveryCallReturns ==
  \A t \in Threads : (thr[t].pc # "idle") ~> (thr[t].pc = "idle")

\* C8: at every moment at most one guest call is executing on the engine
\* instance of a LoadedPlugin, whatever the threads calling handlers,
\* EnablePlugin, DisablePlugin and UnloadPlugin do, also after a call on the
\* instance timed out and its caller returned.
C8_OneGuestCallPerInstance ==
  \A n \in 1..Len(loaded) :
    Cardinality({g \in guest : g.on = "LoadedPlugin" /\ g.n = n}) <= 1

(***************************************************************************)
(* The runtime: Instance.Call and PluginInstance.Call                      *)
(***************************************************************************)

\* A panic that nothing recovers ends the process
Panicked == \E t \in Threads : thr[t].ret = "panic"

\* Instance.Call, lines 57-79 of instance.go: lock, count the call, start the
\* goroutine.  parent tells whether the caller's context is still "live" when
\* the deadline of callCtx passes, or is itself "done" (cancelled or expired)
InstanceCall(t, parent) ==
  /\ ~Panicked
  /\ inst.mu = "free"
  /\ Begin(t, [Call("Instance.Call", "", 0, "i:wait") EXCEPT !.parent = parent,
                                                           !.before = inst.errors,
                                                           !.st = inst.State])
  /\ inst' = [inst EXCEPT !.mu = t, !.callCount = @ + 1]
  /\ guest' = guest \cup {GuestCall(started + 1, "Instance", 0, "call", TRUE)}
  /\ UNCHANGED <<dvars, mvars, mu, chan, pinst, ovars>>

\* Metrics.RecordError(err), manifest.go lines 232-239: ErrorCount is raised
\* and then err.Error() is called, which panics on a nil error
RecordError(err) == IF err = "nil" THEN "panic" ELSE "timeout"

\* lines 82-85: the deadline passed first.  errorCount is raised and
\* RecordError gets ctx.Err(), the error of the caller's context: nil while
\* that context is live.  The deferred unlocks run in either case.
InstanceCallTimeout(t) ==
  /\ ~Panicked
  /\ thr[t].pc = "i:wait"
  /\ chan' = chan \ {thr[t].k}
  /\ inst' = [inst EXCEPT !.mu = "free", !.errorCount = @ + 1, !.errors = @ + 1]
  /\ thr' = [thr EXCEPT ![t] =
               ReturnsLate(@, RecordError(IF thr[t].parent = "live" THEN "nil"
                                          ELSE "context done"),
                           inst.errors + 1)]
  /\ UNCHANGED <<dvars, mvars, mu, guest, started, pinst, ovars>>

\* lines 86-93: the result arrived in time
InstanceCallResult(t, out) ==
  /\ ~Panicked
  /\ thr[t].pc = "i:wait"
  /\ thr[t].k \in chan
  /\ chan' = chan \ {thr[t].k}
  /\ inst' = [inst EXCEPT !.mu = "free",
                          !.errorCount = IF out = "err" THEN @ + 1 ELSE @,
                          !.errors = IF out = "err" THEN @ + 1 ELSE @]
  /\ thr' = [thr EXCEPT ![t] = Returns(@, IF out = "err" THEN "error" ELSE "result")]
  /\ UNCHANGED <<dvars, mvars, mu, guest, started, pinst, ovars>>

\* PluginInstance.Call, lines 158-180 of runtime.go
PluginInstanceCall(t) ==
  /\ ~Panicked
  /\ pinst.mu = "free"
  /\ IF pinst.State \notin {"Enabled", "Loaded"}
     THEN /\ thr[t].pc = "idle"
          /\ started < MaxCalls
          /\ started' = started + 1
          /\ thr' = [thr EXCEPT ![t] =
                       Returns([Call("PluginInstance.Call", "", 0, "idle")
                                  EXCEPT !.st = pinst.State], "ErrPluginNotEnabled")]
          /\ UNCHANGED <<pinst, guest>>
     ELSE /\ Begin(t, [Call("PluginInstance.Call", "", 0, "p:wait")
                         EXCEPT !.before = pinst.Errors, !.st = pinst.State])
          /\ pinst' = [pinst EXCEPT !.mu = t]
          /\ guest' = guest \cup {GuestCall(started + 1, "PluginInstance", 0, "call", TRUE)}
  /\ UNCHANGED <<dvars, mvars, mu, chan, inst, ovars>>

\* lines 183-185: the deadline passed first
PluginInstanceCallTimeout(t) ==
  /\ ~Panicked
  /\ thr[t].pc = "p:wait"
  /\ chan' = chan \ {thr[t].k}
  /\ pinst' = [pinst EXCEPT !.mu = "free", !.Errors = @ + 1]
  /\ thr' = [thr EXCEPT ![t] = ReturnsLate(@, "timeout", pinst.Errors + 1)]
  /\ UNCHANGED <<dvars, mvars, mu, guest, started, inst, ovars>>

\* lines 186-193: the result arrived in time
PluginInstanceCallResult(t, out) ==
  /\ ~Panicked
  /\ thr[t].pc = "p:wait"
  /\ thr[t].k \in chan
  /\ chan' = chan \ {thr[t].k}
  /\ pinst' = [pinst EXCEPT !.mu = "free", !.Errors = IF out = "err" THEN @ + 1 ELSE @]
  /\ thr' = [thr EXCEPT ![t] = Returns(@, IF out = "err" THEN "error" ELSE "result")]
  /\ UNCHANGED <<dvars, mvars, mu, guest, started, inst, ovars>>

\* PluginInstance.Enable and Disable, lines 196-210
PluginInstanceEnable ==
  /\ ~Panicked
  /\ pinst.mu = "free"
  /\ pinst.State \in {"Loaded", "Disabled"}
  /\ pinst' = [pinst EXCEPT !.State = "Enabled"]
  /\ UNCHANGED <<dvars, mvars, mu, thr, guest, chan, started, inst, ovars>>

PluginInstanceDisable ==
  /\ ~Panicked
  /\ pinst.mu = "free"
  /\ pinst.State = "Enabled"
  /\ pinst' = [pinst EXCEPT !.State = "Disabled"]
  /\ UNCHANGED <<dvars, mvars, mu, thr, guest, chan, started, inst, ovars>>

\* Instance.Enable, lines 112-132 of instance.go, with i.mu held from the
\* state check to the last assignment: on_enable returns out
InstanceEnable(out) ==
  /\ ~Panicked
  /\ inst.mu = "free"
  /\ Enablable(inst.State)
  /\ inst' = [inst EXCEPT !.State = IF out = "err" THEN "Error" ELSE "Enabled"]
  /\ UNCHANGED <<dvars, mvars, mu, thr, guest, chan, started, pinst, ovars>>

\* Instance.Disable, lines 134-153
InstanceDisable ==
  /\ ~Panicked
  /\ inst.mu = "free"
  /\ inst.State = "Enabled"
  /\ inst' = [inst EXCEPT !.State = "Disabled"]
  /\ UNCHANGED <<dvars, mvars, mu, thr, guest, chan, started, pinst, ovars>>

\* Instance.Close, lines 155-170
InstanceCloses ==
  /\ ~Panicked
  /\ inst.mu = "free"
  /\ inst.State # "Unloaded"
  /\ inst' = [inst EXCEPT !.State = "Unloaded"]
  /\ UNCHANGED <<dvars, mvars, mu, thr, guest, chan, started, pinst, ovars>>

InstNext ==
  \/ \E t \in Threads, parent \in {"live", "done"} : InstanceCall(t, parent)
  \/ \E t \in Threads : InstanceCallTimeout(t)
  \/ \E t \in Threads, out \in {"ok", "err"} : InstanceCallResult(t, out)
  \/ \E t \in Threads : PluginInstanceCall(t)
  \/ \E t \in Threads : PluginInstanceCallTimeout(t)
  \/ \E t \in Threads, out \in {"ok", "err"} : PluginInstanceCallResult(t, out)
  \/ PluginInstanceEnable
  \/ PluginInstanceDisable
  \/ \E out \in {"ok", "err"} : InstanceEnable(out)
  \/ InstanceDisable
  \/ InstanceCloses
  \/ \E g \in guest : GuestReturns(g)

SpecInst == Init /\ [][InstNext]_vars

\* C9: a call whose deadline passed returns a timeout error to its caller
\* without panicking, the error counter of the plugin is then exactly one
\* above what it was when the call began, and the instance stays usable: the
\* thread holds none of its locks any more.
C9_TimeoutCountsOnce ==
  \A t \in Threads :
    thr[t].ret \in {"timeout", "panic"} =>
      /\ thr[t].ret = "timeout"
      /\ thr[t].after = thr[t].before + 1
      /\ inst.mu # t /\ pinst.mu # t
      /\ \A n \in 1..Len(loaded) : loaded[n].mu # t

\* C20: a call that finds its plugin in a state other than Loaded and Enabled
\* is back at its caller with the PluginNotEnabled error and started no guest
\* call, on every path: Instance.Call, PluginInstance.Call and the Manager's
\* event handler.
C20_NotEnabledIsRefused ==
  \A t \in Threads :
    thr[t].st \notin {"", "Loaded", "Enabled"} =>
      /\ thr[t].pc = "idle"
      /\ thr[t].ret = "ErrPluginNotEnabled"
      /\ \A g \in guest : g.k # thr[t].k

(***************************************************************************)
(* Properties of Dispatch                                                  *)
(***************************************************************************)

Walking == disp.pc \in {"walk", "done"}

Returned == disp.pc = "done"

\* The handlers called so far that returned without an error
Succeeded(i) == disp.log[i].invoked /\ disp.log[i].out.kind # "err"

\* An earlier handler of the walk cancelled the event
CancelledBefore(i) ==
  \E j \in 1..(i - 1) : Succeeded(j) /\ disp.log[j].out.kind = "ok" /\ disp.log[j].out.Cancelled

\* C2: the handlers one Dispatch calls are called in ascending priority, and
\* handlers of equal priority in the order of their Subscribe calls (Handler
\* is the ordinal of the Subscribe call), for any number of subscriptions.
C2_PriorityThenSubscribeOrder ==
  Walking =>
    \A i, j \in 1..Len(disp.log) :
      (i < j /\ disp.log[i].invoked /\ disp.log[j].invoked) =>
        \/ disp.log[i].sub.Priority < disp.log[j].sub.Priority
        \/ /\ disp.log[i].sub.Priority = disp.log[j].sub.Priority
           /\ disp.log[i].sub.Handler < disp.log[j].sub.Handler

\* C3: Dispatch(e) walks the subscriptions of e alone, one after the other, and
\* calls a subscription exactly when it is not the case that an earlier handler
\* cancelled and the subscription has IgnoreCancelled set; when Dispatch
\* returns every subscription of the snapshot was considered.
C3_InvokedExactly ==
  Walking =>
    /\ Len(disp.log) = disp.idx
    /\ Returned => Len(disp.log) = Len(disp.subs)
    /\ \A i \in 1..Len(disp.log) :
         /\ disp.log[i].sub = disp.subs[i]
         /\ disp.log[i].sub.ev = disp.event
         /\ disp.log[i].invoked <=>
              ~(CancelledBefore(i) /\ disp.log[i].sub.IgnoreCancelled)

\* C3 witness: a dispatch returned after passing over a subscription with
\* IgnoreCancelled because an earlier handler had cancelled
C3_Witness ==
  /\ Returned
  /\ \E i \in 1..Len(disp.log) : ~disp.log[i].invoked /\ CancelledBefore(i)

\* The scenario S4: H1 at priority 0 returned cancelled, H2 at priority 100
\* does not ignore cancelled events
S4 ==
  /\ Returned
  /\ Len(disp.subs) = 2
  /\ disp.subs[1].Priority = PriorityNormal
  /\ disp.subs[2].Priority = PriorityHigh
  /\ ~disp.subs[2].IgnoreCancelled
  /\ disp.log[1].invoked /\ disp.log[1].out.kind = "ok" /\ disp.log[1].out.Cancelled

\* C4 as claimed: in scenario S4 Dispatch runs H1 only and returns
\* cancelled = true, Handlers = 1
C4_RunsH1Only ==
  S4 => /\ ~disp.log[2].invoked
        /\ disp.result.Cancelled
        /\ disp.result.Handlers = 1

\* C4 amended: in scenario S4 Dispatch runs H1 and then H2 and returns
\* cancelled = true; Handlers is 2, or 1 when H2 returned an error
C4_RunsBoth ==
  S4 => /\ disp.log[2].invoked
        /\ disp.result.Cancelled
        /\ disp.result.Handlers = IF disp.log[2].out.kind = "err" THEN 1 ELSE 2

\* C4 witness: scenario S4 with H2 returning normally
C4_Witness == S4 /\ disp.log[2].out.kind = "ok"

\* The errors of the handlers called so far, in the order of the walk
RECURSIVE ErrorsOf(_)
ErrorsOf(log) ==
  IF log = <<>> THEN <<>>
  ELSE LET e == Head(log)
       IN  (IF e.invoked /\ e.out.kind = "err" THEN <<e.sub.Handler>> ELSE <<>>)
             \o ErrorsOf(Tail(log))

\* C5: a handler error is recorded in Errors, the subscriptions after it are
\* still considered and called under the skip rule, Dispatch returns no error,
\* and the failed handler adds neither a cancellation nor a modification.
C5_ErrorIsolated ==
  Walking =>
    /\ disp.result.Errors = ErrorsOf(disp.log)
    /\ disp.err = "nil"
    /\ Returned => Len(disp.log) = Len(disp.subs)
    /\ \A i \in 1..Len(disp.log) :
         disp.log[i].invoked <=> ~(CancelledBefore(i) /\ disp.log[i].sub.IgnoreCancelled)
    /\ disp.result.Cancelled <=> CancelledBefore(Len(disp.log) + 1)
    /\ \A k \in DOMAIN disp.result.Modifications :
         \E i \in 1..Len(disp.log) :
           Succeeded(i) /\ k \in DOMAIN disp.log[i].out.Modifications

\* C5 witness: a dispatch returned in which a handler failed and a later
\* subscription was called
C5_Witness ==
  /\ Returned
  /\ \E i, j \in 1..Len(disp.log) :
       i < j /\ disp.log[i].invoked /\ disp.log[i].out.kind = "err" /\ disp.log[j].invoked

\* The calls that returned key k without an error
Writers(k) ==
  {i \in 1..Len(disp.log) : Succeeded(i) /\ k \in DOMAIN disp.log[i].out.Modifications}

Last(S) == CHOOSE i \in S : \A j \in S : j <= i

\* C6: Modifications[k] is the value the last successful handler, in
\* invocation order, returned for k; a key no successful handler returned is
\* absent.
C6_LastWriterWins ==
  Walking =>
    \A k \in Keys :
      IF Writers(k) = {} THEN k \notin DOMAIN disp.result.Modifications
      ELSE /\ k \in DOMAIN disp.result.Modifications
           /\ disp.result.Modifications[k] = disp.log[Last(Writers(k))].out.Modifications[k]

\* C6 witness: two handlers returned different values for the same key
C6_Witness ==
  /\ Returned
  /\ \E k \in Keys : \E i, j \in Writers(k) :
       i < j /\ disp.log[i].out.Modifications[k] # disp.log[j].out.Modifications[k]

\* The calls below Monitor priority that returned without an error
Mutating(i) == Succeeded(i) /\ disp.log[i].sub.Priority < PriorityMonitor

\* C7 as claimed: the outcome of Dispatch is the one of the handlers below
\* Monitor priority; what a handler at priority >= Monitor returns changes
\* neither Cancelled nor Modifications.
C7_MonitorObservesOnly ==
  Returned =>
    /\ disp.result.Cancelled <=>
         \E i \in 1..Len(disp.log) : Mutating(i) /\ disp.log[i].out.Cancelled
    /\ \A k \in DOMAIN disp.result.Modifications :
         \E i \in 1..Len(disp.log) : Mutating(i) /\ k \in DOMAIN disp.log[i].out.Modifications

(***************************************************************************)
(* The instance Pool (unnamed/part_000) under concurrent callers           *)
(***************************************************************************)

\* Available(): len(p.instances)
Available == Len(pool.instances)

\* A step of thread t in a Pool call: t's call becomes c, and every other
\* call in flight has no longer run alone
PoolStep(t, c) ==
  pcall' = [u \in Threads |->
              IF u = t THEN c
              ELSE IF pcall[u].pc = "idle" THEN pcall[u]
              ELSE [pcall[u] EXCEPT !.alone = FALSE]]

PoolCall(t, op) ==
  [NoPoolCall EXCEPT !.op = op,
                     !.alone = \A u \in Threads \ {t} : pcall[u].pc = "idle",
                     !.after = pool.returned,
                     !.before = Available]

\* the call of thread t returns ret
\* (the context is dropped; alone and before are kept for the calls they are
\* read for)
PoolReturns(t, ret) ==
  [pcall[t] EXCEPT !.pc = "idle", !.ret = ret, !.ctx = "live",
                   !.alone = IF pcall[t].op \in {"WithInstance", "Close"} THEN @ ELSE TRUE,
                   !.before = IF pcall[t].op \in {"WithInstance", "AcquireWait"}
                                THEN @ ELSE 0]

\* The channel drops the send of Release when its buffer holds size instances
ChannelFullNever(instances) == FALSE

ChannelFull(instances) == Len(instances) >= pool.size

\* Acquire, lines 67-73, AcquireWait, lines 85-91, and WithInstance, line
\* 137: the closed check under p.mu.  ctx is the caller's context.
AcquireCalled(t, op, ctx) ==
  /\ ~pool.panicked
  /\ pcall[t].pc = "idle"
  /\ IF pool.closed
       THEN PoolStep(t, [PoolCall(t, op) EXCEPT !.ret = "ErrPoolClosed"])
       ELSE PoolStep(t, [PoolCall(t, op) EXCEPT !.ctx = ctx, !.pc = "select"])
  /\ UNCHANGED <<dvars, mvars, cvars, svars, gvars, pool, held, closes>>

\* case inst := <-p.instances, lines 76-77 and 94-95: the head of the buffer,
\* or the zero value, a nil *Instance, from a closed and drained channel.
\* WithInstance goes on to its callback (line 142), the others return.
Receives(t) ==
  /\ ~pool.panicked
  /\ pcall[t].pc = "select"
  /\ Available > 0 \/ pool.chclosed
  /\ LET got == IF Available > 0 THEN Head(pool.instances) ELSE NilInstance
     IN  /\ pool' = [pool EXCEPT !.instances = IF Available > 0 THEN Tail(@) ELSE @]
         /\ IF pcall[t].op = "WithInstance"
              THEN /\ PoolStep(t, [pcall[t] EXCEPT !.pc = "fn", !.inst = got])
                   /\ UNCHANGED held
              ELSE /\ PoolStep(t, [PoolReturns(t, "nil") EXCEPT !.inst = got])
                   /\ held' = held \cup ({got} \ {NilInstance})
  /\ UNCHANGED <<dvars, mvars, cvars, svars, gvars, closes>>

\* case <-ctx.Done(), lines 78-79 and 96-97
CtxDone(t) ==
  /\ ~pool.panicked
  /\ pcall[t].pc = "select"
  /\ pcall[t].ctx = "done"
  /\ PoolStep(t, PoolReturns(t, "Cancelled"))
  /\ UNCHANGED <<dvars, mvars, cvars, svars, gvars, pool, held, closes>>

\* Every select has the default case
HasDefaultAlways(op) == TRUE

\* The select of Acquire, lines 75-82, has a default case; the selects of
\* AcquireWait, lines 93-98, and so of WithInstance, have none
HasDefault(op) == op = "Acquire"

\* default, lines 80-81: Acquire only, when no other case is ready
Exhausted(t) ==
  /\ ~pool.panicked
  /\ pcall[t].pc = "select"
  /\ HasDefault(pcall[t].op)
  /\ Available = 0 /\ ~pool.chclosed
  /\ pcall[t].ctx = "live"
  /\ PoolStep(t, PoolReturns(t, "ErrPoolExhausted"))
  /\ UNCHANGED <<dvars, mvars, cvars, svars, gvars, pool, held, closes>>

\* The caller's context is cancelled, or its deadline passes, while the call
\* stands before its select
CtxCancels(t) ==
  /\ ~pool.panicked
  /\ pcall[t].pc = "select"
  /\ pcall[t].ctx = "live"
  /\ pcall' = [pcall EXCEPT ![t].ctx = "done"]
  /\ UNCHANGED <<dvars, mvars, cvars, svars, gvars, pool, held, closes>>

\* Release is not deferred: a panic of the callback leaves WithInstance at once
AfterFnNotDeferred(out) == IF out = "panic" THEN "idle" ELSE "release"

\* defer p.Release(inst), line 141: Release runs however fn(inst) ends
AfterFn(out) == "release"

\* fn(inst) of WithInstance, line 142, ends: it returns nil ("ok"), an error
\* ("err") or panics ("panic"); the deferred Release of line 141 runs next
FnReturns(t, out) ==
  /\ ~pool.panicked
  /\ pcall[t].pc = "fn"
  /\ PoolStep(t, [pcall[t] EXCEPT !.pc = AfterFn(out), !.fn = out])
  /\ UNCHANGED <<dvars, mvars, cvars, svars, gvars, pool, held, closes>>

\* A caller gives back an instance it holds: Release is entered
ReleaseCalled(t, i) ==
  /\ ~pool.panicked
  /\ pcall[t].pc = "idle"
  /\ i \in held
  /\ held' = held \ {i}
  /\ PoolStep(t, [PoolCall(t, "Release") EXCEPT !.pc = "release", !.inst = i])
  /\ UNCHANGED <<dvars, mvars, cvars, svars, gvars, pool, closes>>

\* What a call returns once its Release is over: WithInstance the result of
\* its callback, Release nothing (ret tells what became of the instance)
Released(t, what) ==
  IF pcall[t].op = "WithInstance" THEN PoolReturns(t, pcall[t].fn)
  ELSE PoolReturns(t, what)

\* inst.Close() in Release, lines 105 and 113: a nil instance makes it panic
Destroys(t) ==
  IF pcall[t].inst = NilInstance
    THEN /\ pool' = [pool EXCEPT !.panicked = TRUE]
         /\ PoolStep(t, [pcall[t] EXCEPT !.pc = "panic", !.ret = "panic"])
         /\ UNCHANGED closes
    ELSE /\ closes' = [closes EXCEPT ![pcall[t].inst] = @ + 1]
         /\ PoolStep(t, Released(t, "destroyed"))
         /\ UNCHANGED pool

\* Release, lines 102-108: the closed check under p.mu
ReleaseChecks(t) ==
  /\ ~pool.panicked
  /\ pcall[t].pc = "release"
  /\ IF pool.closed
       THEN Destroys(t)
       ELSE /\ PoolStep(t, [pcall[t] EXCEPT !.pc = "send"])
            /\ UNCHANGED <<pool, closes>>
  /\ UNCHANGED <<dvars, mvars, cvars, svars, gvars, held>>

\* Release, lines 110-114: the send, which panics on a closed channel, and
\* the default case when the buffer is full
ReleaseSends(t) ==
  /\ ~pool.panicked
  /\ pcall[t].pc = "send"
  /\ IF pool.chclosed
       THEN /\ pool' = [pool EXCEPT !.panicked = TRUE]
            /\ PoolStep(t, [pcall[t] EXCEPT !.pc = "panic", !.ret = "panic"])
            /\ UNCHANGED closes
       ELSE IF ChannelFull(pool.instances)
         THEN Destroys(t)
         ELSE /\ pool' = [pool EXCEPT !.instances = Append(@, pcall[t].inst)]
              /\ PoolStep(t, Released(t, "pooled"))
              /\ UNCHANGED closes
  /\ UNCHANGED <<dvars, mvars, cvars, svars, gvars, held>>

\* Close, lines 121-127: the closed check and the assignment under p.mu
CloseCalled(t) ==
  /\ ~pool.panicked
  /\ pcall[t].pc = "idle"
  /\ IF pool.closed
       THEN /\ PoolStep(t, [PoolCall(t, "Close") EXCEPT !.ret = "nil"])
            /\ UNCHANGED pool
       ELSE /\ PoolStep(t, [PoolCall(t, "Close") EXCEPT !.pc = "close"])
            /\ pool' = [pool EXCEPT !.closed = TRUE,
                                    !.idle = {pool.instances[n] : n \in 1..Available}]
  /\ UNCHANGED <<dvars, mvars, cvars, svars, gvars, held, closes>>

\* close(p.instances), line 129
CloseChannel(t) ==
  /\ ~pool.panicked
  /\ pcall[t].pc = "close"
  /\ pool' = [pool EXCEPT !.chclosed = TRUE]
  /\ PoolStep(t, [pcall[t] EXCEPT !.pc = "drain"])
  /\ UNCHANGED <<dvars, mvars, cvars, svars, gvars, held, closes>>

\* The loop of Close forgets inst.Close()
DrainedUnclosed(i) == closes

\* inst.Close() on an instance the loop of Close received, line 131
Drained(i) == [closes EXCEPT ![i] = @ + 1]

\* for inst := range p.instances { inst.Close() }, lines 130-133: one round of
\* the loop, or its end and the return
Drains(t) ==
  /\ ~pool.panicked
  /\ pcall[t].pc = "drain"
  /\ IF Available > 0
       THEN /\ pool' = [pool EXCEPT !.instances = Tail(@)]
            /\ closes' = Drained(Head(pool.instances))
            /\ PoolStep(t, pcall[t])
       ELSE /\ pool' = [pool EXCEPT !.returned = TRUE, !.lone = pcall[t].alone]
            /\ PoolStep(t, PoolReturns(t, "nil"))
            /\ UNCHANGED closes
  /\ UNCHANGED <<dvars, mvars, cvars, svars, gvars, held>>

PoolNext ==
  \/ \E t \in Threads, op \in {"Acquire", "AcquireWait", "WithInstance"},
        ctx \in {"live", "done"} : AcquireCalled(t, op, ctx)
  \/ \E t \in Threads : Receives(t)
  \/ \E t \in Threads : CtxDone(t)
  \/ \E t \in Threads : Exhausted(t)
  \/ \E t \in Threads : CtxCancels(t)
  \/ \E t \in Threads, out \in {"ok", "err", "panic"} : FnReturns(t, out)
  \/ \E t \in Threads, i \in Instances : ReleaseCalled(t, i)
  \/ \E t \in Threads : ReleaseChecks(t)
  \/ \E t \in Threads : ReleaseSends(t)
  \/ \E t \in Threads : CloseCalled(t)
  \/ \E t \in Threads : CloseChannel(t)
  \/ \E t \in Threads : Drains(t)

\* NewPool with every size of the model
PoolInit ==
  /\ DInit /\ MInit /\ CInit /\ disk = <<>>
  /\ SInit /\ GInit
  /\ pool \in {NewPool(size) : size \in 1..MaxPoolSize}
  /\ pcall = [t \in Threads |-> NoPoolCall]
  /\ held = {Foreign}
  /\ closes = [i \in Instances |-> 0]

SpecPool == PoolInit /\ [][PoolNext]_vars

\* The pool while it stays open: callers acquire, wait and release
PoolWaitNext ==
  \/ \E t \in Threads, op \in {"Acquire", "AcquireWait"}, ctx \in {"live", "done"} :
        AcquireCalled(t, op, ctx)
  \/ \E t \in Threads : Receives(t)
  \/ \E t \in Threads : CtxDone(t)
  \/ \E t \in Threads : Exhausted(t)
  \/ \E t \in Threads : CtxCancels(t)
  \/ \E t \in Threads, i \in Instances : ReleaseCalled(t, i)
  \/ \E t \in Threads : ReleaseChecks(t)
  \/ \E t \in Threads : ReleaseSends(t)

\* The scheduler runs every goroutine that can take a step: a select with a
\* ready case proceeds, and a Release that was entered goes on to its end.
\* Nothing makes a caller call, and nothing makes a context end.
PoolFairness ==
  \A t \in Threads :
    /\ WF_vars(Receives(t))
    /\ WF_vars(CtxDone(t))
    /\ WF_vars(ReleaseChecks(t))
    /\ WF_vars(ReleaseSends(t))

SpecPoolLive == PoolInit /\ [][PoolWaitNext]_vars /\ PoolFairness

(***************************************************************************)
(* Properties of the Pool                                                  *)
(***************************************************************************)

\* The send of a Release that found the buffer full: the instance is closed
\* and the buffer stays as it was
FullReleaseDestroys(t) ==
  (/\ pcall[t].pc = "send"
   /\ pcall'[t].pc # "send"
   /\ ~pool.chclosed
   /\ Available = pool.size)
  => /\ closes' = [closes EXCEPT ![pcall[t].inst] = @ + 1]
     /\ pool'.instances = pool.instances

\* C21: in every reachable state Size() is the size NewPool was given (the
\* number of instances it created) and 0 <= Available() <= Size(), whatever
\* the interleaving of Acquire, AcquireWait, Release, WithInstance and Close;
\* a Release that finds the pool full destroys its instance and leaves the
\* buffer as it is.
C21_SizeFixedAvailableBounded ==
  /\ [](/\ pool.size = pool.created
        /\ 0 <= Available
        /\ Available <= pool.size)
  /\ [][/\ pool'.size = pool.size
        /\ \A t \in Threads : FullReleaseDestroys(t)]_vars

\* A Release on an open pool of two instances found the buffer full and
\* destroyed the instance it was given
C21_Witness ==
  \E t \in Threads :
    /\ pcall[t].pc = "idle"
    /\ pcall[t].op = "Release"
    /\ pcall[t].ret = "destroyed"
    /\ ~pool.closed
    /\ pool.size = 2
    /\ Available = pool.size

\* A Close that is called once a Close has returned returns nil at once and
\* changes nothing
SecondCloseIsNothing(t) ==
  (/\ pool.returned
   /\ pcall[t].pc = "idle"
   /\ pcall'[t].op = "Close"
   /\ pcall'[t] # pcall[t])
  => /\ pcall'[t].pc = "idle"
     /\ pcall'[t].ret = "nil"
     /\ pool' = pool
     /\ closes' = closes
     /\ held' = held

\* The calls that began once a Close had returned: Acquire, AcquireWait and
\* WithInstance return ErrPoolClosed with no instance and no callback run,
\* Release destroys its instance and never sends it
AfterCloseRefused ==
  \A t \in Threads :
    pcall[t].after =>
      /\ pcall[t].op \in {"Acquire", "AcquireWait", "WithInstance"} =>
           /\ pcall[t].pc = "idle"
           /\ pcall[t].ret = "ErrPoolClosed"
           /\ pcall[t].inst = NilInstance
           /\ pcall[t].fn = ""
      /\ pcall[t].op = "Release" =>
           /\ pcall[t].pc \in {"release", "idle"}
           /\ pcall[t].pc = "idle" =>
                /\ pcall[t].ret = "destroyed"
                /\ closes[pcall[t].inst] = 1
                /\ \A n \in 1..Available : pool.instances[n] # pcall[t].inst

\* The instance is in the hands of a caller: held, or inside a call
Taken(i) ==
  \/ i \in held
  \/ \E t \in Threads : pcall[t].pc \in {"fn", "release", "send"} /\ pcall[t].inst = i

\* C22 as it is stated: Close is idempotent; once Close has returned, every
\* Acquire and AcquireWait returns ErrPoolClosed, every Release destroys its
\* instance, and every instance that was idle when Close was called has been
\* destroyed exactly once.
C22_CloseDestroysEveryIdle ==
  /\ [](AfterCloseRefused)
  /\ [](pool.returned => \A i \in pool.idle : closes[i] = 1)
  /\ [][\A t \in Threads : SecondCloseIsNothing(t)]_vars

\* C22, amended: as above, but an instance that was idle when Close was called
\* has been destroyed exactly once unless an acquire that had passed its
\* closed check before Close received it; that one is with its caller and not
\* destroyed yet.
C22_CloseDestroysIdleNotTaken ==
  /\ [](AfterCloseRefused)
  /\ [](pool.returned =>
          \A i \in pool.idle : \/ closes[i] = 1 /\ ~Taken(i)
                               \/ closes[i] = 0 /\ Taken(i))
  /\ [][\A t \in Threads : SecondCloseIsNothing(t)]_vars

\* Close has returned on a pool that had two idle instances, both are
\* destroyed, and after it one thread was refused an instance and the other
\* had a second Close return nil
C22_Witness ==
  /\ pool.returned
  /\ Cardinality(pool.idle) = 2
  /\ \A i \in pool.idle : closes[i] = 1
  /\ \E t, u \in Threads :
       /\ pcall[t].pc = "idle" /\ pcall[t].op = "AcquireWait"
       /\ pcall[t].after /\ pcall[t].ret = "ErrPoolClosed"
       /\ pcall[u].pc = "idle" /\ pcall[u].op = "Close"
       /\ pcall[u].after /\ pcall[u].ret = "nil"

\* C23: with Close running beside Acquire, AcquireWait, Release and
\* WithInstance, an acquire that returns no error returns an instance (never
\* nil with a nil error, and WithInstance never runs its callback on nil), no
\* Release panics by sending on the closed channel, and no instance the pool
\* created is destroyed twice.
C23_CloseRaceIsClean ==
  /\ \A t \in Threads :
       /\ (/\ pcall[t].pc = "idle"
           /\ pcall[t].op \in {"Acquire", "AcquireWait"}
           /\ pcall[t].ret = "nil") => pcall[t].inst # NilInstance
       /\ pcall[t].pc = "fn" => pcall[t].inst # NilInstance
       /\ pcall[t].pc # "panic"
  /\ ~pool.panicked
  /\ \A i \in 1..pool.created : closes[i] <= 1

InChannel(instances, i) == \E n \in 1..Len(instances) : instances[n] = i

\* WithInstance leaves after its callback has run, on a pool that is open:
\* the instance is back in the channel, or was destroyed because the channel
\* was full; when no other call ran beside it, it is back in the channel and
\* Available() is what it was when WithInstance was called
WithInstanceGivesBack(t) ==
  (/\ pcall[t].op = "WithInstance"
   /\ pcall[t].pc \in {"fn", "release", "send"}
   /\ pcall'[t].pc = "idle"
   /\ ~pool'.closed)
  => /\ pcall'[t].fn \in {"ok", "err", "panic"}
     /\ pcall'[t].ret = pcall'[t].fn
     /\ \/ InChannel(pool'.instances, pcall[t].inst)
        \/ /\ Len(pool.instances) = pool.size
           /\ closes'[pcall[t].inst] = closes[pcall[t].inst] + 1
     /\ pcall'[t].alone =>
          /\ InChannel(pool'.instances, pcall[t].inst)
          /\ Len(pool'.instances) = pcall[t].before

\* C24: WithInstance never leaks a pool slot: on an open pool, however the
\* callback ends (nil, an error, a panic), the instance is given back when
\* WithInstance exits, and with no other call beside it Available() is the
\* same after as before; when the acquisition fails the callback is not run.
C24_WithInstanceNeverLeaks ==
  /\ [](\A t \in Threads :
          /\ (pcall[t].op = "WithInstance"
              /\ pcall[t].ret \in {"ErrPoolClosed", "Cancelled"}) => pcall[t].fn = ""
          /\ pcall[t].pc = "fn" => pcall[t].ret = "")
  /\ [][\A t \in Threads : WithInstanceGivesBack(t)]_vars

\* WithInstance has left an open pool of two instances after its callback
\* panicked, no other call ran beside it, and both instances are available
C24_Witness ==
  \E t \in Threads :
    /\ pcall[t].pc = "idle"
    /\ pcall[t].op = "WithInstance"
    /\ pcall[t].fn = "panic"
    /\ pcall[t].alone
    /\ ~pool.closed
    /\ pcall[t].before = 2
    /\ Available = 2

\* Thread t is in AcquireWait, at its select
Waiting(t) == pcall[t].pc = "select" /\ pcall[t].op = "AcquireWait"

\* C25: AcquireWait on a pool with no idle instance blocks and never fails
\* with ErrPoolExhausted: it returns an instance, or the context's error when
\* the context has ended.  Under fair scheduling a waiter whose context has
\* ended returns, and once a holder is in Release a waiter returns unless
\* another caller was given the instance.
C25_AcquireWaitBlocksUntilReleased ==
  /\ [](\A t \in Threads :
          (pcall[t].op = "AcquireWait" /\ pcall[t].pc = "idle") =>
             \/ pcall[t].ret = "nil" /\ pcall[t].inst # NilInstance
             \/ pcall[t].ret = "Cancelled" /\ pcall[t].inst = NilInstance)
  /\ [][\A t \in Threads :
          (Waiting(t) /\ pcall'[t].pc = "idle" /\ pcall'[t].ret = "Cancelled")
             => pcall[t].ctx = "done"]_vars
  /\ \A t \in Threads :
       (Waiting(t) /\ pcall[t].ctx = "done") ~> ~Waiting(t)
  /\ \A t \in Threads :
       (Waiting(t) /\ \E u \in Threads : pcall[u].op = "Release" /\ pcall[u].pc # "idle")
         ~> \/ ~Waiting(t)
            \/ \E u \in Threads \ {t} :
                 /\ pcall[u].op \in {"Acquire", "AcquireWait"}
                 /\ pcall[u].pc = "idle"
                 /\ pcall[u].ret = "nil"

\* AcquireWait was called on an empty pool, blocked, and has returned the
\* instance that the other thread released
C25_Witness ==
  \E t \in Threads, u \in Threads :
    /\ pcall[t].pc = "idle" /\ pcall[t].op = "AcquireWait"
    /\ pcall[t].before = 0
    /\ pcall[t].ret = "nil" /\ pcall[t].inst # NilInstance
    /\ pcall[u].pc = "idle" /\ pcall[u].op = "Release" /\ pcall[u].ret = "pooled"
    /\ pcall[u].inst = pcall[t].inst

(***************************************************************************)
(* Storage (internal/runtime/instance.go): MemoryStorage and FileStorage   *)
(***************************************************************************)

\* The keys in the order json.Marshal writes the members of a map: sorted as
\* byte strings ("k" < "k\xef\xbf\xbd" < "k\xff")
KeyOrder == <<"k", KeyReplacement, KeyInvalid>>

\* A JSON string as json.Marshal writes a Go string: every byte that is not
\* valid UTF-8 becomes U+FFFD
JSONString(k) == IF k = KeyInvalid THEN KeyReplacement ELSE k

\* A []byte as json.Marshal writes it, base64 in a JSON string, and back
Base64(v) == <<"base64", v>>
Unbase64(e) == e[2]

\* json.Marshal(s.data[pluginID]), line 307: one member per entry of the map
Marshal(kv) ==
  LET entries == SelectSeq(KeyOrder, LAMBDA k : kv[k] # NoValue)
  IN  [n \in 1..Len(entries) |->
         [key |-> JSONString(entries[n]), value |-> Base64(kv[entries[n]])]]

\* json.Unmarshal(data, &pluginData), line 252: a member that comes again
\* replaces the earlier one
Unmarshal(doc) ==
  [k \in StorageKeys |->
     LET at == {n \in 1..Len(doc) : doc[n].key = k}
     IN  IF at = {} THEN NoValue
         ELSE Unbase64(doc[CHOOSE n \in at : \A m \in at : m <= n].value)]

\* persist, lines 301-312: MkdirAll, Marshal, WriteFile to the end
persist(data, fl, p) ==
  [fl EXCEPT ![p] = [state |-> "whole", doc |-> Marshal(data[p].kv)]]

\* loadAll, lines 228-258, when every data.json parses
loadAll(fl) ==
  [p \in PluginIDs |->
     IF fl[p].state = "whole" THEN [has |-> TRUE, kv |-> Unmarshal(fl[p].doc)]
     ELSE [has |-> FALSE, kv |-> NoEntries]]

\* Get of both backends, lines 260-269 and 335-344
Lookup(data, p, k) ==
  IF data[p].has /\ data[p].kv[k] # NoValue
    THEN [value |-> data[p].kv[k], present |-> TRUE]
    ELSE [value |-> NoValue, present |-> FALSE]

StorageRet(op, p, k, r, err) ==
  [op |-> op, p |-> p, k |-> k, v |-> r.value, present |-> r.present, err |-> err]

\* Get
StorageGet(p, k) ==
  /\ storage.up
  /\ sret' = StorageRet("Get", p, k, Lookup(storage.data, p, k), "nil")
  /\ UNCHANGED <<dvars, mvars, cvars, pvars, gvars, storage, files>>

\* What a write leaves on disk: the memory backend nothing, the file backend
\* the plugin's data.json written anew
Persisted(data, p) ==
  IF storage.backend = "file" THEN persist(data, files, p) ELSE files

\* Set, lines 271-280 and 346-355
StorageSet(p, k, v) ==
  /\ storage.up
  /\ \E data \in {[storage.data EXCEPT ![p].has = TRUE, ![p].kv[k] = v]} :
       /\ storage' = [storage EXCEPT !.data = data]
       /\ files' = Persisted(data, p)
  /\ sret' = StorageRet("Set", p, k, [value |-> v, present |-> FALSE], "nil")
  /\ UNCHANGED <<dvars, mvars, cvars, pvars, gvars>>

\* Delete keeps the entry
DeletedNothing(kv, k) == kv

\* delete(pluginData, key), lines 287 and 362
Deleted(kv, k) == [kv EXCEPT ![k] = NoValue]

\* Delete, lines 282-291 and 357-365: nothing is written when the plugin has
\* no map
StorageDelete(p, k) ==
  /\ storage.up
  /\ IF storage.data[p].has
       THEN \E data \in {[storage.data EXCEPT ![p].kv = Deleted(@, k)]} :
              /\ storage' = [storage EXCEPT !.data = data]
              /\ files' = Persisted(data, p)
       ELSE UNCHANGED <<storage, files>>
  /\ sret' = StorageRet("Delete", p, k, [value |-> NoValue, present |-> FALSE], "nil")
  /\ UNCHANGED <<dvars, mvars, cvars, pvars, gvars>>

\* Clear drops the maps of all plugins
ClearedAll(data, p) == NoData

\* delete(s.data, pluginID), lines 297 and 371
Cleared(data, p) == [data EXCEPT ![p] = [has |-> FALSE, kv |-> NoEntries]]

\* Clear, lines 293-299 and 367-373: the file backend removes the directory
StorageClear(p) ==
  /\ storage.up
  /\ storage' = [storage EXCEPT !.data = Cleared(@, p)]
  /\ files' = IF storage.backend = "file" THEN [files EXCEPT ![p] = NoFile] ELSE files
  /\ sret' = StorageRet("Clear", p, "", [value |-> NoValue, present |-> FALSE], "nil")
  /\ UNCHANGED <<dvars, mvars, cvars, pvars, gvars>>

\* NewFileStorage, lines 216-226, on the base directory as it is: the first
\* one of a process, or the one of the next process after the old one went
\* away without Close.  A data.json that does not parse makes it fail.
NewFileStorage ==
  /\ storage.backend = "file" \/ sret.op = "New"
  /\ IF \E p \in PluginIDs : files[p].state = "torn"
       THEN /\ storage' = [backend |-> "file", up |-> FALSE, data |-> NoData]
            /\ sret' = StorageRet("NewFileStorage", "", "",
                                  [value |-> NoValue, present |-> FALSE], "parse")
       ELSE /\ storage' = [backend |-> "file", up |-> TRUE, data |-> loadAll(files)]
            /\ sret' = StorageRet("NewFileStorage", "", "",
                                  [value |-> NoValue, present |-> FALSE], "nil")
  /\ UNCHANGED <<dvars, mvars, cvars, pvars, gvars, files>>

\* os.WriteFile, line 311, truncates data.json and then writes it.  The
\* process stops in persist: before the file was opened (at = "old"), after
\* the truncation or amid the write ("torn"), or after the write ("new").
Crashes(data, p, at) ==
  /\ storage.up
  /\ storage.backend = "file"
  /\ storage' = [storage EXCEPT !.up = FALSE, !.data = NoData]
  /\ files' = CASE at = "old" -> files
                [] at = "torn" -> [files EXCEPT ![p] = [state |-> "torn", doc |-> <<>>]]
                [] at = "new" -> persist(data, files, p)
  /\ sret' = StorageRet("Crash", p, "", [value |-> NoValue, present |-> FALSE], at)
  /\ UNCHANGED <<dvars, mvars, cvars, pvars, gvars>>

\* The process stops while Set is in persist
CrashInSet(p, k, v, at) ==
  /\ v \in StorageValues
  /\ Crashes([storage.data EXCEPT ![p].has = TRUE, ![p].kv[k] = v], p, at)

\* The process stops while Delete is in persist
CrashInDelete(p, k, at) ==
  /\ storage.data[p].has
  /\ Crashes([storage.data EXCEPT ![p].kv = Deleted(@, k)], p, at)

StorageNext ==
  \/ \E p \in PluginIDs, k \in StorageKeys : StorageGet(p, k)
  \/ \E p \in PluginIDs, k \in StorageKeys, v \in StorageValues : StorageSet(p, k, v)
  \/ \E p \in PluginIDs, k \in StorageKeys : StorageDelete(p, k)
  \/ \E p \in PluginIDs : StorageClear(p)
  \/ NewFileStorage
  \/ \E p \in PluginIDs, k \in StorageKeys, v \in StorageValues,
        at \in {"old", "torn", "new"} : CrashInSet(p, k, v, at)
  \/ \E p \in PluginIDs, k \in StorageKeys, at \in {"old", "torn", "new"} :
        CrashInDelete(p, k, at)

\* NewMemoryStorage; NewFileStorage on the empty base directory is the first
\* step of the behaviours of the file backend
StorageInit == DInit /\ MInit /\ CInit /\ OInit /\ disk = <<>>

SpecStorage == StorageInit /\ [][StorageNext]_vars

\* persist, lines 301-312, returns an error: MkdirAll or the opening of
\* data.json failed and the file is as it was (at = "old"), or the write
\* failed after the truncation ("torn").  The maps in memory stay as the
\* caller left them before it called persist.
PersistFails(data, p, at) ==
  /\ storage.up
  /\ storage.backend = "file"
  /\ storage' = [storage EXCEPT !.data = data]
  /\ files' = IF at = "old" THEN files
              ELSE [files EXCEPT ![p] = [state |-> "torn", doc |-> <<>>]]
  /\ UNCHANGED <<dvars, mvars, cvars, pvars, gvars>>

\* Set, lines 271-280, when persist fails: line 278 has stored the value
SetFails(p, k, v, at) ==
  /\ PersistFails([storage.data EXCEPT ![p].has = TRUE, ![p].kv[k] = v], p, at)
  /\ sret' = StorageRet("Set", p, k, [value |-> v, present |-> FALSE], "persist")

\* Delete, lines 282-291, when persist fails: line 287 has deleted the key
DeleteFails(p, k, at) ==
  /\ storage.data[p].has
  /\ PersistFails([storage.data EXCEPT ![p].kv = Deleted(@, k)], p, at)
  /\ sret' = StorageRet("Delete", p, k, [value |-> NoValue, present |-> FALSE], "persist")

\* The calls whose persist fails are those of p.one on the key "k"
StorageFailNext ==
  \/ StorageNext
  \/ \E v \in StorageValues, at \in {"old", "torn"} : SetFails("p.one", "k", v, at)
  \/ \E at \in {"old", "torn"} : DeleteFails("p.one", "k", at)

SpecStorageFail == StorageInit /\ [][StorageFailNext]_vars

(***************************************************************************)
(* Properties of Storage                                                   *)
(***************************************************************************)

\* What Get returns for every key of plugin p
GetAll(data, p) == [k \in StorageKeys |-> Lookup(data, p, k)]

\* C26: storage is partitioned by plugin id in both backends: a Set, Delete
\* or Clear made with plugin id A leaves, for every B # A and every key, what
\* Get(B, k) returns as it was (and B's file as it was); so Set(A, k, v) on
\* an empty store leaves Get(B, k) absent.
C26_PartitionedByPlugin ==
  [][sret'.op \in {"Set", "Delete", "Clear"} =>
       \A B \in PluginIDs \ {sret'.p} :
         /\ GetAll(storage'.data, B) = GetAll(storage.data, B)
         /\ files'[B] = files[B]]_vars

\* On the file backend p.one holds a value for every key, p.two holds none,
\* and Get("p.two", "k") has just returned absent
C26_Witness ==
  /\ storage.backend = "file"
  /\ \A k \in StorageKeys : Lookup(storage.data, "p.one", k).present
  /\ ~storage.data["p.two"].has
  /\ sret.op = "Get" /\ sret.p = "p.two" /\ sret.k = "k" /\ ~sret.present

\* C27: in both backends, after Set(p, k, v) Get(p, k) returns (v, present);
\* after Delete(p, k) or Clear(p) it returns absent; no call changes what Get
\* returns for a pair it does not touch, Get changes nothing and returns what
\* the store holds, and Delete of a key that is not present succeeds and
\* changes nothing.
C27_SetGetDelete ==
  [][/\ sret'.op \in {"Get", "Set", "Delete", "Clear"} => sret'.err = "nil"
     /\ sret'.op = "Set" =>
          /\ Lookup(storage'.data, sret'.p, sret'.k)
               = [value |-> sret'.v, present |-> TRUE]
          /\ \A k \in StorageKeys \ {sret'.k} :
               Lookup(storage'.data, sret'.p, k) = Lookup(storage.data, sret'.p, k)
     /\ sret'.op = "Delete" =>
          /\ ~Lookup(storage'.data, sret'.p, sret'.k).present
          /\ \A k \in StorageKeys \ {sret'.k} :
               Lookup(storage'.data, sret'.p, k) = Lookup(storage.data, sret'.p, k)
     /\ sret'.op = "Clear" =>
          \A k \in StorageKeys : ~Lookup(storage'.data, sret'.p, k).present
     /\ sret'.op = "Get" =>
          /\ [value |-> sret'.v, present |-> sret'.present]
               = Lookup(storage.data, sret'.p, sret'.k)
          /\ storage' = storage
          /\ files' = files]_vars

\* A value was set, set again and read back, and then a key that is not
\* present was deleted: the last Get returned the second value, and the
\* store still holds it
C27_Witness ==
  /\ sret.op = "Delete" /\ sret.p = "p.one" /\ sret.k = KeyReplacement
  /\ Lookup(storage.data, "p.one", "k") = [value |-> "v2", present |-> TRUE]
  /\ ~Lookup(storage.data, "p.one", KeyReplacement).present
  /\ storage.backend = "file"
  /\ files["p.one"].state = "whole"

\* C28: a new FileStorage opened on the same base directory, after successful
\* Set, Delete and Clear calls and without Close, returns for every plugin
\* and key what Get returned just before the restart.
C28_RestartKeepsEveryPair ==
  [][(sret'.op = "NewFileStorage" /\ storage.up /\ storage.backend = "file") =>
       /\ sret'.err = "nil"
       /\ \A p \in PluginIDs : GetAll(storage'.data, p) = GetAll(storage.data, p)]_vars

\* C29: a crash at any point of a file-backed write leaves data.json whole,
\* with the content from before the write or the content after it, so that
\* the store opens again.
C29_CrashLeavesWholeFile ==
  /\ \A p \in PluginIDs : files[p].state \in {"none", "whole"}
  /\ sret.op = "NewFileStorage" => sret.err = "nil"

(***************************************************************************)
(* Config.GetEffectiveLimits (pkg/config/config.go)                        *)
(***************************************************************************)

\* The values a limit takes in the model (int64 and uint64 fields: far inside
\* both ranges, and the function compares and copies only)
LimitValues == 0..MaxLimit

AllLimits ==
  {ResourceLimits(mem, ms, fuel) : mem \in LimitValues, ms \in LimitValues,
                                   fuel \in LimitValues}

\* An override is used as it is, zero too
InheritNever(v, default) == v

\* if limits.X == 0 { limits.X = c.DefaultLimits.X }, lines 138-146
Inherit(v, default) == IF v = 0 THEN default ELSE v

\* min of lines 148-150
min(a, b) == IF a < b THEN a ELSE b

\* GetEffectiveLimits, lines 137-153, on a copy of the limits it was given
EffectiveLimits(c, given) ==
  ResourceLimits(
    min(Inherit(given.MaxMemoryMB, c.DefaultLimits.MaxMemoryMB),
        c.GlobalLimits.MaxMemoryMB),
    min(Inherit(given.MaxExecutionMs, c.DefaultLimits.MaxExecutionMs),
        c.GlobalLimits.MaxExecutionMs),
    min(Inherit(given.MaxFuel, c.DefaultLimits.MaxFuel), c.GlobalLimits.MaxFuel))

\* (one call in a behaviour: the function reads the Config and its argument
\* only)
GetEffectiveLimits(given) ==
  /\ ~limits.called
  /\ limits' = [limits EXCEPT !.given = given,
                              !.effective = EffectiveLimits(limits, given),
                              !.called = TRUE]
  /\ UNCHANGED <<dvars, mvars, cvars, pvars, svars>>

LimitsNext == \E given \in AllLimits : GetEffectiveLimits(given)

\* A Config with any default limits and any global limits
LimitsInit ==
  /\ DInit /\ MInit /\ CInit /\ PInit /\ SInit /\ disk = <<>>
  /\ limits \in {[DefaultLimits |-> d, GlobalLimits |-> g,
                  given |-> ResourceLimits(0, 0, 0),
                  effective |-> ResourceLimits(0, 0, 0),
                  called |-> FALSE] : d \in AllLimits, g \in AllLimits}

SpecLimits == LimitsInit /\ [][LimitsNext]_vars

\* The three limits by name
LimitNames == {"MaxMemoryMB", "MaxExecutionMs", "MaxFuel"}

\* C30: for each of max_memory_mb, max_execution_ms and max_fuel,
\* GetEffectiveLimits returns min(v, global ceiling), v being the plugin's
\* override if that is not zero and the configured default otherwise: every
\* effective limit is at most the ceiling, and an override of zero is never
\* the limit unless the default or the ceiling makes it zero.
C30_EffectiveLimits ==
  limits.called =>
    \A f \in LimitNames :
      LET over == limits.given[f]
          v == IF over # 0 THEN over ELSE limits.DefaultLimits[f]
          ceiling == limits.GlobalLimits[f]
          e == limits.effective[f]
      IN  /\ e <= ceiling
          /\ e <= v
          /\ e = v \/ e = ceiling
          /\ (over = 0 /\ limits.DefaultLimits[f] > 0 /\ ceiling > 0) => e > 0

\* An override of zero took the default, an override above the ceiling was
\* cut to the ceiling, and an override below it was kept
C30_Witness ==
  /\ limits.called
  /\ limits.DefaultLimits = ResourceLimits(1, 1, 1)
  /\ limits.GlobalLimits = ResourceLimits(2, 1, 2)
  /\ limits.given = ResourceLimits(0, 2, 1)
  /\ limits.effective = ResourceLimits(1, 1, 1)

(***************************************************************************)
(* Properties of Dispatch on events that are not cancellable               *)
(***************************************************************************)

\* C31: for an event that is not cancellable a handler that returns
\* cancelled = true has no effect: the result of the Dispatch is never
\* cancelled, no later handler with ignore_cancelled is passed over, and the
\* game action (the sprint toggle) is not cancelled.
C31_NotCancellableIgnoresCancelled ==
  (disp.pc # "idle" /\ ~IsCancellable(disp.event)) =>
    /\ ~disp.result.Cancelled
    /\ \A n \in 1..Len(disp.log) : disp.log[n].invoked
    /\ disp.pc = "done" => ~HandleToggleSprint(disp.result)
    /\ cancelCount[disp.event] = 0

(***************************************************************************)
(* Properties of Dispatch against concurrent changes of the subscriptions   *)
(***************************************************************************)

\* C32: Dispatch walks the subscription list as it was when the dispatch
\* started and holds no dispatcher lock while handlers run: while a dispatch
\* is in flight Subscribe, Unsubscribe and UnsubscribeEvent can run (no
\* deadlock), they do not change the list the dispatch walks nor the
\* handlers it invokes, and a dispatch that starts after one of them takes
\* the list they left.
C32_DispatchWalksItsSnapshot ==
  /\ [](disp.pc = "walk" =>
          /\ \A e \in Events, p \in Plugins :
               ENABLED Subscribe(e, p, PriorityNormal, FALSE)
          /\ \A p \in Plugins :
               (\E e \in Events : \E s \in Range(subscriptions[e]) : s.PluginID = p)
                 => ENABLED Unsubscribe(p)
          /\ \A p \in Plugins, e \in Events :
               (\E s \in Range(subscriptions[e]) : s.PluginID = p)
                 => ENABLED UnsubscribeEvent(p, e))
  /\ [][ /\ (disp.pc = "idle" /\ disp'.pc # "idle")
              => disp'.subs = subscriptions[disp'.event]
         /\ (disp.pc = "walk" /\ subscriptions' # subscriptions)
              => disp' = disp
         /\ (disp.pc = "walk" /\ disp'.pc # "idle")
              => /\ disp'.subs = disp.subs
                 /\ \A n \in 1..Len(disp'.log) : disp'.log[n].sub = disp'.subs[n]
       ]_vars

\* a handler of the walked list has run after the live list changed
C32_Witness ==
  /\ disp.pc = "walk"
  /\ subscriptions[disp.event] # disp.subs
  /\ Len(disp.log) = Len(disp.subs)
  /\ Len(disp.log) >= 2
  /\ disp.log[2].invoked

(***************************************************************************)
(* Properties of the Manager lock                                          *)
(***************************************************************************)

\* C33: no thread holds the Manager lock while a guest function is executing
\* for it: in every reachable state "Manager lock held" and "guest call in
\* progress by the same operation" do not hold together.
C33_NoGuestCallUnderManagerLock ==
  \A t \in Threads :
    mu = t => ~\E g \in guest : g.k = thr[t].k /\ g.fn \in {"on_enable", "on_disable"}

(***************************************************************************)
(* Properties of the handler count of a DispatchResult                      *)
(***************************************************************************)

\* createEventHandler, lines 805-850 of hostfuncs.go: the handler returns
\* (nil, nil) exactly when it found its plugin neither Enabled nor Loaded
\* and called no guest code (lines 808-810); after handle_event returned it
\* hands on parseEventResult's result, which is never nil, or an error
GuestRan(out) == out.kind = "ok"

NotEnabled(out) == out.kind = "nil"

\* C34: for every Dispatch, Handlers is the number of handlers whose guest
\* code ran to completion, and Handlers + len(Errors) is the number of
\* subscriptions that were not passed over; a subscription of a plugin that
\* is Disabled, in Error or Unloaded is not counted in Handlers.
C34_HandlersCountsGuestRuns ==
  disp.pc = "done" =>
    LET ran == {n \in 1..Len(disp.log) : disp.log[n].invoked /\ GuestRan(disp.log[n].out)}
        taken == {n \in 1..Len(disp.log) :
                    disp.log[n].invoked /\ ~NotEnabled(disp.log[n].out)}
    IN  /\ disp.result.Handlers = Cardinality(ran)
        /\ disp.result.Handlers + Len(disp.result.Errors) = Cardinality(taken)

(***************************************************************************)
(* Properties of FileStorage when persisting fails                         *)
(***************************************************************************)

\* C35: when persisting fails during FileStorage.Set or FileStorage.Delete
\* the error is returned and the store's observable content is unchanged:
\* Get returns for every plugin and key what it returned before the call.
C35_FailedWriteChangesNothing ==
  [][(sret'.op \in {"Set", "Delete"} /\ sret'.err # "nil") =>
       \A p \in PluginIDs : GetAll(storage'.data, p) = GetAll(storage.data, p)]_vars

(***************************************************************************)
(* Properties of closed engine instances                                   *)
(***************************************************************************)

\* C36: no guest call is started on, or still running on, an engine instance
\* that has been closed: UnloadPlugin does not close an instance while a
\* handler's call on it is in flight, and no Dispatch invokes guest code of
\* a closed instance, whether the plugin was Enabled or only Loaded.
C36_NoGuestCallOnClosedInstance ==
  \A g \in guest : g.on = "LoadedPlugin" => loaded[g.n].closes = 0

(***************************************************************************)
(* Properties of loadOrder and the plugin map                              *)
(***************************************************************************)

\* C37: in every reachable state of the Manager loadOrder holds no id twice
\* and the ids of loadOrder are the keys of the plugin map; so GetAllPlugins
\* never returns a nil entry.
C37_LoadOrderIsTheKeySet ==
  /\ \A j, k \in 1..Len(loadOrder) : loadOrder[j] = loadOrder[k] => j = k
  /\ Range(loadOrder) = {id \in Ids : plugins[id] # NoPlugin}
  /\ \A k \in 1..Len(GetAllPlugins) : GetAllPlugins[k] # NoPlugin

(***************************************************************************)
(* Properties of LoadAll and the dependencies of the loaded plugins        *)
(***************************************************************************)

\* C38: after LoadAll every plugin in the plugin map has all of its
\* non-optional dependencies in the plugin map too: a plugin whose
\* non-optional dependency failed to load is itself not loaded.
C38_LoadedHaveTheirDependencies ==
  mret.op = "LoadAll" =>
    \A i \in 1..Len(disk) :
      GetPlugin(disk[i].ID).ok =>
        \A d \in Range(disk[i].Dependencies) : ~d.Optional => GetPlugin(d.ID).ok

(***************************************************************************)
(* Properties of concurrent UnloadPlugin calls                             *)
(***************************************************************************)

\* C39: when UnloadPlugin(id) runs concurrently with another UnloadPlugin(id),
\* EnablePlugin(id) or DisablePlugin(id), the engine instance is closed
\* exactly once, at most one UnloadPlugin returns success, and the plugin
\* ends absent from the map with state Unloaded.
C39_ConcurrentUnloadClosesOnce ==
  /\ \A n \in 1..Len(loaded) :
       /\ loaded[n].closes <= 1
       /\ loaded[n].closes = 1 =>
            /\ loaded[n].State = "Unloaded"
            /\ ~GetPlugin(loaded[n].ID).ok
  /\ \A t, u \in Threads :
       (/\ thr[t].pc = "idle" /\ thr[t].op = "unload" /\ thr[t].ret = "nil"
        /\ thr[u].pc = "idle" /\ thr[u].op = "unload" /\ thr[u].ret = "nil") => t = u

(***************************************************************************)
(* What an unload and an unsubscription leave alone                        *)
(***************************************************************************)

\* The other plugins are as they were: map entry, state, place among the
\* other ids of loadOrder, subscriptions and their order in every event
OthersUntouched(id) ==
  /\ \A q \in Ids \ {id} :
       /\ plugins'[q] = plugins[q]
       /\ plugins[q] # NoPlugin => loaded'[plugins[q]] = loaded[plugins[q]]
  /\ SelectSeq(loadOrder', LAMBDA q : q # id) = SelectSeq(loadOrder, LAMBDA q : q # id)
  /\ \A e \in Events :
       SelectSeq(subscriptions'[e], LAMBDA sub : sub.PluginID # id)
         = SelectSeq(subscriptions[e], LAMBDA sub : sub.PluginID # id)

\* C40: UnloadPlugin(id), Unsubscribe(id) and UnsubscribeEvent(id, e) leave
\* every other plugin untouched: its map entry, its state, its place among
\* the remaining ids of loadOrder and its subscriptions with their order in
\* every event's list; UnsubscribeEvent(id, e) also leaves id's
\* subscriptions to the events other than e in place.
C40_OthersUntouched ==
  [][\A id \in Ids :
       /\ UnloadPlugin(id) => OthersUntouched(id)
       /\ Unsubscribe(id) => OthersUntouched(id)
       /\ \A e \in Events :
            UnsubscribeEvent(id, e) =>
              /\ OthersUntouched(id)
              /\ \A f \in Events \ {e} : subscriptions'[f] = subscriptions[f]]_vars

\* a.one has just been unloaded while a.two, loaded before it in loadOrder or
\* after it, keeps its two subscriptions
C40_Witness ==
  /\ mret.op = "UnloadPlugin" /\ mret.id = "a.one" /\ mret.err = "nil"
  /\ GetPlugin("a.two").ok
  /\ \E s \in Range(subscriptions["player_chat"]) : s.PluginID = "a.two"
  /\ \E s \in Range(subscriptions["block_break"]) : s.PluginID = "a.two"

====
